---- MODULE Spec2Model ----
(***************************************************************************)
(* A state-machine model of the arena game's simulation layer:            *)
(* GameState (gamestate/mod.rs), the per-phase frame handlers             *)
(* (gamestate/*.rs), Player, Enemy, Projectile, Weapon and the collision  *)
(* engine.                                                                 *)
(*                                                                         *)
(* Numbers.  The program computes with f32/f64; the model computes with   *)
(* integers.  Lengths and speeds are whole units, durations are whole     *)
(* time units with DT = 2 of them, and the real-valued tuning constants   *)
(* of the program (radii, speeds, cooldowns, lifetimes) are represented   *)
(* by small integers that keep their order.  Vector normalisation and     *)
(* rotation round to the nearest integer vector.                          *)
(*                                                                         *)
(* Control.  pc is the position of the frame loop: "frame" (between two   *)
(* frames), "input" (process_global_input), "process" (the phase's        *)
(* process function), "time", "tick", "mark", "collide", "bounds",        *)
(* "despawn" (the steps of playing::process and update_logic) and "apply" *)
(* (apply_next_state).                                                     *)
(***************************************************************************)
EXTENDS Integers, Sequences, FiniteSets, TLC

VARIABLES
    state,                  \* GameState.state
    next_state,             \* GameState.next_state ("None" or a phase)
    player,                 \* GameState.player
    enemies,                \* GameState.enemies
    projectiles,            \* GameState.projectiles
    enemies_to_despawn,     \* GameState.enemies_to_despawn
    projectiles_to_despawn, \* GameState.projectiles_to_despawn
    next_entity_id,         \* GameState.next_entity_id
    wave,                   \* GameState.wave
    error_message,          \* GameState.error_message ("None" or the message)
    paused,                 \* GameState.paused
    visual_config,          \* GameState.visual_config
    game_constants,         \* GameState.game_constants
    basic_enemy_stats,      \* GameState.basic_enemy_stats
    chaser_enemy_stats,     \* GameState.chaser_enemy_stats
    t_passed,               \* GameState.t_passed
    n_logic_updates,        \* GameState.n_logic_updates
    t_elapsed,              \* get_time() - GameState.t_prev
    ticks_left,             \* iterations left of the loop of playing::process
    held,                   \* movement key held down and cursor position of this frame
    script,                 \* the contents of waves.roto
    pc,                     \* position of the frame loop
    issued,                 \* history: entity ids handed out since the process started
    session_ids,            \* history: entity ids handed out by the current GameState
    player_hit,             \* history: ids of the enemies that overlapped the player in
                            \* a collision pass of the current frame
    frame0,                 \* history: the phase, the player and the entities at the
                            \* start of the current frame, and the number of ticks that
                            \* update_time_for_logic returned in it
    call                    \* the last call of a function that is checked on its own:
                            \* its arguments and what it returned

vars == <<state, next_state, player, enemies, projectiles, enemies_to_despawn,
          projectiles_to_despawn, next_entity_id, wave, error_message, paused,
          visual_config, game_constants, basic_enemy_stats, chaser_enemy_stats,
          t_passed, n_logic_updates, t_elapsed, ticks_left, held, script, pc, issued, session_ids,
          player_hit, frame0, call>>

----------------------------------------------------------------------------
(* Bounds of the model *)

\* entity ids handed out per GameState before the model stops spawning
MaxId == 6
\* longest wall-clock time between two frames
MaxDelta == 3
\* longest time since t_prev the model lets the wall clock reach
MaxElapsed == 3
\* weapon level at which the model stops accepting upgrades
MaxWeaponLevel == 2

----------------------------------------------------------------------------
(* Program constants *)

\* const DT: f64 = 1.0 / 30.0
DT == 2

\* screen_width(), screen_height(): the window, an input of the program
ScreenW == 4
ScreenH == 4

GameStateEnum == {"WeaponSelection", "Playing", "GameOver", "ScriptError"}
EnemyType == {"Basic", "Chaser"}
ProjectileType == {"EnergyBall", "Pulse", "HomingMissile"}
WeaponType == {"EnergyBall", "Pulse", "HomingMissile"}

----------------------------------------------------------------------------
(* Integer vector arithmetic standing for glam's Vec2 *)

Abs(a) == IF a < 0 THEN -a ELSE a
Sign(a) == IF a < 0 THEN -1 ELSE IF a > 0 THEN 1 ELSE 0
Min2(a, b) == IF a < b THEN a ELSE b
Max2(a, b) == IF a > b THEN a ELSE b
Clamp(a, lo, hi) == IF a < lo THEN lo ELSE IF a > hi THEN hi ELSE a

\* a / b rounded to the nearest integer (b > 0)
RoundDiv(a, b) == Sign(a) * ((2 * Abs(a) + b) \div (2 * b))
\* a / b rounded toward zero (b > 0)
TruncDiv(a, b) == Sign(a) * (Abs(a) \div b)

RECURSIVE ISqrtIn(_, _, _)
\* the r in lo..hi with r * r <= n < (r + 1) * (r + 1), by bisection
ISqrtIn(n, lo, hi) ==
    IF lo >= hi THEN lo
    ELSE LET mid == (lo + hi + 1) \div 2
         IN  IF mid * mid <= n THEN ISqrtIn(n, mid, hi) ELSE ISqrtIn(n, lo, mid - 1)
\* floor of the square root
ISqrt(n) == ISqrtIn(n, 0, Min2(n, 46340))

VAdd(a, b) == <<a[1] + b[1], a[2] + b[2]>>
VSub(a, b) == <<a[1] - b[1], a[2] - b[2]>>
VScale(a, k) == <<a[1] * k, a[2] * k>>
VNeg(a) == <<-a[1], -a[2]>>
Dot(a, b) == a[1] * b[1] + a[2] * b[2]
LengthSquared(a) == Dot(a, a)
\* Vec2::length() in hundredths
Length100(a) == ISqrt(10000 * LengthSquared(a))
\* v.normalize() * s; the zero vector (NaN in the program) is left zero
NormScale(v, s) ==
    IF LengthSquared(v) = 0 THEN <<0, 0>>
    ELSE <<RoundDiv(v[1] * s * 100, Length100(v)), RoundDiv(v[2] * s * 100, Length100(v))>>

----------------------------------------------------------------------------
(* Collision engine (collision.rs).  Penetration depths and normals are in   *)
(* hundredths.                                                                *)

Circle(r) == [kind |-> "Circle", radius |-> r, width |-> 0, height |-> 0]
Rect(w, h) == [kind |-> "Rect", radius |-> 0, width |-> w, height |-> h]

\* CollisionData::none() with a unit normal left in
CollisionDataNone_unit == [collided |-> FALSE, penetration_depth |-> 0, normal |-> <<100, 0>>]

CollisionDataNone == [collided |-> FALSE, penetration_depth |-> 0, normal |-> <<0, 0>>]
CollisionDataNew(penetration, normal) ==
    [collided |-> TRUE, penetration_depth |-> penetration, normal |-> normal]

\* variant: circles that exactly touch count as colliding
circle_circle_touching(pos1, r1, pos2, r2) ==
    LET delta == VSub(pos1, pos2)
        distance_sq == LengthSquared(delta)
        radii_sum == r1 + r2
        distance == Length100(delta)
    IN  IF distance_sq <= radii_sum * radii_sum
        THEN CollisionDataNew(100 * radii_sum - distance,
                              IF distance > 0 THEN NormScale(delta, 100) ELSE <<100, 0>>)
        ELSE CollisionDataNone

circle_circle(pos1, r1, pos2, r2) ==
    LET delta == VSub(pos1, pos2)
        distance_sq == LengthSquared(delta)
        radii_sum == r1 + r2
        distance == Length100(delta)
    IN  IF distance_sq < radii_sum * radii_sum
        THEN CollisionDataNew(100 * radii_sum - distance,
                              IF distance > 0 THEN NormScale(delta, 100) ELSE <<100, 0>>)
        ELSE CollisionDataNone

\* Coordinates are doubled inside, so that width / 2 stays an integer.
circle_rect(circle_pos, radius, rect_pos, width, height) ==
    LET cx == 2 * circle_pos[1]
        cy == 2 * circle_pos[2]
        left == 2 * rect_pos[1] - width
        right == 2 * rect_pos[1] + width
        top == 2 * rect_pos[2] - height
        bottom == 2 * rect_pos[2] + height
        closest == <<Clamp(cx, left, right), Clamp(cy, top, bottom)>>
        delta == VSub(<<cx, cy>>, closest)
        distance_sq == LengthSquared(delta)
        distance == Length100(delta) \div 2
        dx_left == Abs(cx - left)
        dx_right == Abs(right - cx)
        dy_top == Abs(cy - top)
        dy_bottom == Abs(bottom - cy)
        min_dist == Min2(Min2(Min2(dx_left, dx_right), dy_top), dy_bottom)
        normal == IF distance > 0 THEN NormScale(delta, 100)
                  ELSE IF min_dist = dx_left THEN <<-100, 0>>
                  ELSE IF min_dist = dx_right THEN <<100, 0>>
                  ELSE IF min_dist = dy_top THEN <<0, -100>>
                  ELSE <<0, 100>>
    IN  IF distance_sq < 4 * radius * radius
        THEN CollisionDataNew(100 * radius - distance, normal)
        ELSE CollisionDataNone

\* rect_rect resolving a tie of the two overlaps along X
rect_rect_tie_x(pos1, w1, h1, pos2, w2, h2) ==
    LET delta == VSub(pos1, pos2)
        overlap_x == (w1 + w2) - 2 * Abs(delta[1])
        overlap_y == (h1 + h2) - 2 * Abs(delta[2])
    IN  IF overlap_x > 0 /\ overlap_y > 0
        THEN IF overlap_x <= overlap_y
             THEN CollisionDataNew(50 * overlap_x, <<IF delta[1] > 0 THEN 100 ELSE -100, 0>>)
             ELSE CollisionDataNew(50 * overlap_y, <<0, IF delta[2] > 0 THEN 100 ELSE -100>>)
        ELSE CollisionDataNone

\* Overlaps are doubled inside, so that the half extents stay integers.
rect_rect(pos1, w1, h1, pos2, w2, h2) ==
    LET delta == VSub(pos1, pos2)
        overlap_x == (w1 + w2) - 2 * Abs(delta[1])
        overlap_y == (h1 + h2) - 2 * Abs(delta[2])
    IN  IF overlap_x > 0 /\ overlap_y > 0
        THEN IF overlap_x < overlap_y
             THEN CollisionDataNew(50 * overlap_x, <<IF delta[1] > 0 THEN 100 ELSE -100, 0>>)
             ELSE CollisionDataNew(50 * overlap_y, <<0, IF delta[2] > 0 THEN 100 ELSE -100>>)
        ELSE CollisionDataNone

\* check_collision without the flip of the normal in the box-circle case
check_collision_unflipped(collider1, pos1, collider2, pos2) ==
    IF collider1.kind = "Circle" /\ collider2.kind = "Circle"
    THEN circle_circle(pos1, collider1.radius, pos2, collider2.radius)
    ELSE IF collider1.kind = "Circle"
    THEN circle_rect(pos1, collider1.radius, pos2, collider2.width, collider2.height)
    ELSE IF collider2.kind = "Circle"
    THEN circle_rect(pos2, collider2.radius, pos1, collider1.width, collider1.height)
    ELSE rect_rect(pos1, collider1.width, collider1.height,
                   pos2, collider2.width, collider2.height)

check_collision(collider1, pos1, collider2, pos2) ==
    IF collider1.kind = "Circle" /\ collider2.kind = "Circle"
    THEN circle_circle(pos1, collider1.radius, pos2, collider2.radius)
    ELSE IF collider1.kind = "Circle"
    THEN circle_rect(pos1, collider1.radius, pos2, collider2.width, collider2.height)
    ELSE IF collider2.kind = "Circle"
    THEN LET result == circle_rect(pos2, collider2.radius, pos1,
                                   collider1.width, collider1.height)
         IN  [result EXCEPT !.normal = VNeg(result.normal)]
    ELSE rect_rect(pos1, collider1.width, collider1.height,
                   pos2, collider2.width, collider2.height)

----------------------------------------------------------------------------
(* The configuration provider (roto_script.rs).  script is the contents of   *)
(* waves.roto: a version of the tuning values, and what is wrong with the    *)
(* file: nothing, it does not compile ("all"), or one function is missing;   *)
(* rev counts the times the file was saved since the program started.        *)

ScriptFaults == {"none", "all", "player", "constants", "basic", "chaser"}
Contents == {[ver |-> 1, fault |-> "none"]} \cup [ver : {2}, fault : ScriptFaults]
Script(c, rev) == [ver |-> c.ver, fault |-> c.fault, rev |-> rev]
Scripts == {Script(c, 0) : c \in Contents}

Ok(v) == [ok |-> TRUE, val |-> v, err |-> "None"]
Err(msg) == [ok |-> FALSE, val |-> "None", err |-> msg]

\* EntityStats: acceleration and friction are in hundredths
EntityStats(r, s, a, f) == [radius |-> r, max_speed |-> s, acceleration |-> a, friction |-> f]

call_roto_function(s, func_name, value) ==
    IF s.fault = "all" THEN Err("ERROR compiling waves.roto")
    ELSE IF s.fault = func_name THEN Err("ERROR: function not found")
    ELSE Ok(value)

get_player_stats(s) ==
    call_roto_function(s, "player",
        IF s.ver = 1 THEN EntityStats(1, 1, 100, 80) ELSE EntityStats(1, 1, 100, 50))

get_enemy_stats(s, enemy_type) ==
    IF enemy_type = "Basic"
    THEN call_roto_function(s, "basic",
            IF s.ver = 1 THEN EntityStats(1, 1, 100, 95) ELSE EntityStats(1, 1, 50, 90))
    ELSE call_roto_function(s, "chaser",
            IF s.ver = 1 THEN EntityStats(1, 1, 100, 95) ELSE EntityStats(1, 1, 80, 90))

GameConstants(m, o) == [out_of_bounds_margin |-> m, spawn_target_offset |-> o]

get_game_constants(s) ==
    call_roto_function(s, "constants",
        IF s.ver = 1 THEN GameConstants(1, 1) ELSE GameConstants(1, 0))

\* A missing get_visual_config is not an error: the default is returned.
get_visual_config(s) ==
    IF s.fault = "all" THEN Err("ERROR compiling waves.roto")
    ELSE Ok(IF s.ver = 1 THEN "visual1" ELSE "visual2")

WaveConfig(b, c) == [basic_enemy_count |-> b, chaser_enemy_count |-> c]

get_wave_config(s, wave_num) ==
    call_roto_function(s, "wave",
        IF s.ver = 1
        THEN (IF wave_num % 2 = 0 THEN WaveConfig(1, 0) ELSE WaveConfig(0, 1))
        ELSE WaveConfig(3, 2))

----------------------------------------------------------------------------
(* Projectiles (projectile.rs) *)

\* turning_rate is in degrees per time unit
ProjectileStats(d, s, r, w, h, ttl, tr) ==
    [damage |-> d, speed |-> s, radius |-> r, width |-> w, height |-> h,
     time_to_live |-> ttl, turning_rate |-> tr]

ProjectileStatsFrom(projectile_type) ==
    CASE projectile_type = "EnergyBall" -> ProjectileStats(10, 1, 1, 0, 0, 6, 0)
      [] projectile_type = "Pulse" -> ProjectileStats(15, 0, 0, 4, 4, 3, 0)
      [] projectile_type = "HomingMissile" -> ProjectileStats(20, 1, 1, 0, 0, 8, 45)

ProjectileCollider(p) ==
    IF p.projectile_type = "Pulse" THEN Rect(p.stats.width, p.stats.height)
    ELSE Circle(p.stats.radius)

\* cos and sin of the angles the model turns by, in hundredths
Cos100(deg) ==
    CASE Abs(deg) = 0 -> 100
      [] Abs(deg) = 10 -> 98
      [] Abs(deg) = 25 -> 91
      [] Abs(deg) = 30 -> 87
      [] Abs(deg) = 45 -> 71
      [] Abs(deg) = 50 -> 64
      [] Abs(deg) = 75 -> 26
      [] Abs(deg) = 90 -> 0
      [] Abs(deg) = 135 -> -71
      [] Abs(deg) = 180 -> -100
Sin100(deg) ==
    Sign(deg) * (CASE Abs(deg) = 0 -> 0
                   [] Abs(deg) = 10 -> 17
                   [] Abs(deg) = 25 -> 42
                   [] Abs(deg) = 30 -> 50
                   [] Abs(deg) = 45 -> 71
                   [] Abs(deg) = 50 -> 77
                   [] Abs(deg) = 75 -> 97
                   [] Abs(deg) = 90 -> 100
                   [] Abs(deg) = 135 -> 71
                   [] Abs(deg) = 180 -> 0)

\* the vector rotated by deg, in hundredths
rotate_vector(vec, deg) ==
    <<vec[1] * Cos100(deg) - vec[2] * Sin100(deg),
      vec[1] * Sin100(deg) + vec[2] * Cos100(deg)>>

\* cross.atan2(dot) in degrees, to the nearest multiple of 45
Atan2Deg(cross, dot) ==
    LET a == IF 1000 * Abs(cross) < 414 * Abs(dot) THEN 0
             ELSE IF 1000 * Abs(cross) < 2414 * Abs(dot) THEN 45
             ELSE 90
        b == IF dot < 0 THEN 180 - a ELSE a
    IN  IF cross = 0 /\ dot = 0 THEN 0
        ELSE IF cross < 0 THEN -b ELSE b

\* variant: a Pulse that does not age
ProjectileUpdate_ageless_pulse(p, dt) ==
    LET t == p.time_remaining - dt
    IN  IF p.projectile_type = "Pulse"
        THEN [p EXCEPT !.pos = p.source_pos]
        ELSE [p EXCEPT !.time_remaining = t, !.pos = VAdd(p.pos, VScale(p.vel, dt))]

ProjectileUpdate(p, dt) ==
    LET t == p.time_remaining - dt
    IN  IF p.projectile_type = "Pulse"
        THEN [p EXCEPT !.time_remaining = t, !.pos = p.source_pos]
        ELSE [p EXCEPT !.time_remaining = t, !.pos = VAdd(p.pos, VScale(p.vel, dt))]

\* index of the first enemy at the least squared distance (Iterator::min_by)
NearestEnemy(pos, es) ==
    CHOOSE i \in 1..Len(es) :
        \A j \in 1..Len(es) :
            LET di == LengthSquared(VSub(es[i].pos, pos))
                dj == LengthSquared(VSub(es[j].pos, pos))
            IN  di < dj \/ (di = dj /\ i <= j)

\* Vec2::normalize of the zero vector is (NaN, NaN), and so is everything computed
\* from it.  NaN is held as a coordinate far outside every arena: like NaN it is
\* in no bounds and within no collision distance.
NaNVec == <<-1000, -1000>>

update_homing(p, dt, es) ==
    IF p.projectile_type # "HomingMissile" \/ Len(es) = 0 THEN p
    ELSE IF \/ es[NearestEnemy(p.pos, es)].pos = p.pos
            \/ p.vel = <<0, 0>>
            \/ p.vel = NaNVec
    THEN [p EXCEPT !.vel = NaNVec]
    ELSE LET target == es[NearestEnemy(p.pos, es)]
             to_target == VSub(target.pos, p.pos)
             cross == p.vel[1] * to_target[2] - p.vel[2] * to_target[1]
             dot == Dot(p.vel, to_target)
             angle_diff == Atan2Deg(cross, dot)
             max_turn == p.stats.turning_rate * dt
             turn_angle == Clamp(angle_diff, -max_turn, max_turn)
         IN  [p EXCEPT !.vel = NormScale(rotate_vector(p.vel, turn_angle), p.stats.speed)]

is_expired(p) == p.time_remaining <= 0

----------------------------------------------------------------------------
(* Weapons (weapon.rs) *)

WeaponStats(cd, n, spread, ps) ==
    [cooldown |-> cd, projectile_count |-> n, spread_angle |-> spread,
     projectile_stats |-> ps]

WeaponStatsFrom(weapon_type) ==
    CASE weapon_type = "EnergyBall" -> WeaponStats(4, 1, 0, ProjectileStatsFrom("EnergyBall"))
      [] weapon_type = "Pulse" -> WeaponStats(8, 1, 0, ProjectileStatsFrom("Pulse"))
      [] weapon_type = "HomingMissile" ->
            WeaponStats(6, 1, 0, ProjectileStatsFrom("HomingMissile"))

WeaponNew(weapon_type) ==
    [weapon_type |-> weapon_type, level |-> 1, cooldown_remaining |-> 0,
     stats |-> WeaponStatsFrom(weapon_type)]

\* variant: the timer runs on below zero
WeaponUpdate_unfloored(w, dt) ==
    [w EXCEPT !.cooldown_remaining = w.cooldown_remaining - dt]

WeaponUpdate(w, dt) ==
    IF w.cooldown_remaining > 0
    THEN [w EXCEPT !.cooldown_remaining = w.cooldown_remaining - dt]
    ELSE w

\* variant: a weapon that may fire one tick before its timer has run out
can_fire_early(w) == w.cooldown_remaining <= DT

can_fire(w) == w.cooldown_remaining <= 0

SpawnCommand(projectile_type, pos, vel) ==
    [projectile_type |-> projectile_type, pos |-> pos, vel |-> vel]

\* variant: the fan is laid out from +spread_angle down to -spread_angle
FireSpread_mirrored(w, projectile_type, player_pos, player_facing) ==
    LET n == w.stats.projectile_count
        speed == w.stats.projectile_stats.speed
        angle_offset(i) == w.stats.spread_angle - RoundDiv(i * 2 * w.stats.spread_angle, n - 1)
    IN  IF n = 1
        THEN <<SpawnCommand(projectile_type, player_pos, NormScale(player_facing, speed))>>
        ELSE [k \in 1..n |->
                SpawnCommand(projectile_type, player_pos,
                    NormScale(rotate_vector(player_facing, angle_offset(k - 1)), speed))]

\* fire_energy_ball and fire_homing_missile: one projectile along the facing
\* direction, or projectile_count of them fanned over +- spread_angle
FireSpread(w, projectile_type, player_pos, player_facing) ==
    LET n == w.stats.projectile_count
        speed == w.stats.projectile_stats.speed
        angle_offset(i) == -w.stats.spread_angle + RoundDiv(i * 2 * w.stats.spread_angle, n - 1)
    IN  IF n = 1
        THEN <<SpawnCommand(projectile_type, player_pos, NormScale(player_facing, speed))>>
        ELSE [k \in 1..n |->
                SpawnCommand(projectile_type, player_pos,
                    NormScale(rotate_vector(player_facing, angle_offset(k - 1)), speed))]

fire_pulse(w, player_pos) == <<SpawnCommand("Pulse", player_pos, <<0, 0>>)>>

\* the weapon after fire(), and the spawn commands it returns
Fire(w, player_pos, player_facing) ==
    IF ~can_fire(w) THEN [weapon |-> w, commands |-> <<>>]
    ELSE [weapon |-> [w EXCEPT !.cooldown_remaining = w.stats.cooldown],
          commands |->
            CASE w.weapon_type = "EnergyBall" ->
                    FireSpread(w, "EnergyBall", player_pos, player_facing)
              [] w.weapon_type = "Pulse" -> fire_pulse(w, player_pos)
              [] w.weapon_type = "HomingMissile" ->
                    FireSpread(w, "HomingMissile", player_pos, player_facing)]

\* x * pct / 100, not below floor
ScaleMin(x, pct, floor) == Max2(RoundDiv(x * pct, 100), floor)

\* variant: the upper tier starts one level later
level_up_late_tier(w) ==
    LET l == w.level + 1
        s == w.stats
        ps == s.projectile_stats
    IN  [w EXCEPT !.level = l, !.stats =
          CASE w.weapon_type = "EnergyBall" ->
                IF l >= 6
                THEN [s EXCEPT !.projectile_count = @ + 3, !.spread_angle = 75,
                        !.cooldown = ScaleMin(@, 85, 1),
                        !.projectile_stats = [ps EXCEPT !.speed = RoundDiv(@ * 125, 100),
                                                        !.damage = @ + 2]]
                ELSE [s EXCEPT !.projectile_count = @ + 1, !.spread_angle = 30,
                        !.cooldown = ScaleMin(@, 95, 1),
                        !.projectile_stats = [ps EXCEPT !.speed = RoundDiv(@ * 105, 100),
                                                        !.damage = @ + 2]]
            [] w.weapon_type = "Pulse" ->
                IF l >= 6
                THEN [s EXCEPT !.cooldown = ScaleMin(@, 80, 1),
                        !.projectile_stats = [ps EXCEPT !.width = @ + 2, !.height = @ + 2,
                                                        !.damage = @ + 3,
                                                        !.time_to_live = @ + 1]]
                ELSE [s EXCEPT !.cooldown = ScaleMin(@, 95, 3),
                        !.projectile_stats = [ps EXCEPT !.width = @ + 1, !.height = @ + 1,
                                                        !.damage = @ + 3,
                                                        !.time_to_live = @ + 0]]
            [] w.weapon_type = "HomingMissile" ->
                IF l >= 6
                THEN [s EXCEPT !.projectile_count = @ + 2, !.spread_angle = 30,
                        !.cooldown = ScaleMin(@, 85, 1),
                        !.projectile_stats = [ps EXCEPT !.turning_rate = RoundDiv(@ * 125, 100),
                                                        !.speed = RoundDiv(@ * 135, 100)]]
                ELSE [s EXCEPT !.cooldown = ScaleMin(@, 92, 1),
                        !.projectile_stats = [ps EXCEPT !.damage = @ + 4,
                                                        !.turning_rate = RoundDiv(@ * 115, 100),
                                                        !.speed = RoundDiv(@ * 110, 100)]]]

level_up(w) ==
    LET l == w.level + 1
        s == w.stats
        ps == s.projectile_stats
    IN  [w EXCEPT !.level = l, !.stats =
          CASE w.weapon_type = "EnergyBall" ->
                IF l >= 5
                THEN [s EXCEPT !.projectile_count = @ + 3, !.spread_angle = 75,
                        !.cooldown = ScaleMin(@, 85, 1),
                        !.projectile_stats = [ps EXCEPT !.speed = RoundDiv(@ * 125, 100),
                                                        !.damage = @ + 2]]
                ELSE [s EXCEPT !.projectile_count = @ + 1, !.spread_angle = 30,
                        !.cooldown = ScaleMin(@, 95, 1),
                        !.projectile_stats = [ps EXCEPT !.speed = RoundDiv(@ * 105, 100),
                                                        !.damage = @ + 2]]
            [] w.weapon_type = "Pulse" ->
                IF l >= 5
                THEN [s EXCEPT !.cooldown = ScaleMin(@, 80, 1),
                        !.projectile_stats = [ps EXCEPT !.width = @ + 2, !.height = @ + 2,
                                                        !.damage = @ + 3,
                                                        !.time_to_live = @ + 1]]
                ELSE [s EXCEPT !.cooldown = ScaleMin(@, 95, 3),
                        !.projectile_stats = [ps EXCEPT !.width = @ + 1, !.height = @ + 1,
                                                        !.damage = @ + 3,
                                                        !.time_to_live = @ + 0]]
            [] w.weapon_type = "HomingMissile" ->
                IF l >= 5
                THEN [s EXCEPT !.projectile_count = @ + 2, !.spread_angle = 30,
                        !.cooldown = ScaleMin(@, 85, 1),
                        !.projectile_stats = [ps EXCEPT !.turning_rate = RoundDiv(@ * 125, 100),
                                                        !.speed = RoundDiv(@ * 135, 100)]]
                ELSE [s EXCEPT !.cooldown = ScaleMin(@, 92, 1),
                        !.projectile_stats = [ps EXCEPT !.damage = @ + 4,
                                                        !.turning_rate = RoundDiv(@ * 115, 100),
                                                        !.speed = RoundDiv(@ * 110, 100)]]]

----------------------------------------------------------------------------
(* Player (player.rs) *)

PlayerNew(x, y, stats) ==
    [pos |-> <<x, y>>, vel |-> <<0, 0>>, facing |-> <<1, 0>>, stats |-> stats,
     weapons |-> <<>>, visual_config |-> "default", xp |-> 0, level |-> 0]

\* Player::reset that builds a new player with the default stats
PlayerReset_recreated(p, x, y) == PlayerNew(x, y, EntityStats(1, 1, 100, 90))

PlayerReset(p, x, y) ==
    [p EXCEPT !.pos = <<x, y>>, !.vel = <<0, 0>>, !.facing = <<1, 0>>,
              !.weapons = <<>>, !.xp = 0, !.level = 0]

\* variant: a curve without the triangular sum
xp_for_level_flat(level) == 5 * level

RECURSIVE xp_for_level(_)
\* the loop "for i in 1..=level { total += 5 * i }"
xp_for_level(level) == IF level = 0 THEN 0 ELSE xp_for_level(level - 1) + 5 * level

xp_for_next_level(p) == xp_for_level(p.level + 1)

\* variant: add_xp that raises the level past every threshold the XP has reached
add_xp_all_levels(p, xp) ==
    LET q == [p EXCEPT !.xp = p.xp + xp]
        l == CHOOSE n \in 0..(q.xp + 1) :
                xp_for_level(n) <= q.xp /\ q.xp < xp_for_level(n + 1)
    IN  [player |-> [q EXCEPT !.level = IF l > q.level THEN l ELSE q.level],
         leveled_up |-> l > q.level]

\* variant: add_xp that compares the XP with the threshold of the level held
add_xp_early(p, xp) ==
    LET q == [p EXCEPT !.xp = p.xp + xp]
    IN  IF q.xp >= xp_for_level(q.level)
        THEN [player |-> [q EXCEPT !.level = q.level + 1], leveled_up |-> TRUE]
        ELSE [player |-> q, leveled_up |-> FALSE]

\* the player after add_xp(xp), and the value it returns
add_xp(p, xp) ==
    LET q == [p EXCEPT !.xp = p.xp + xp]
    IN  IF q.xp >= xp_for_next_level(q)
        THEN [player |-> [q EXCEPT !.level = q.level + 1], leveled_up |-> TRUE]
        ELSE [player |-> q, leveled_up |-> FALSE]

add_weapon(p, weapon_type) == [p EXCEPT !.weapons = Append(@, WeaponNew(weapon_type))]

\* variant: the upgrade of a weapon also counted as a level of the player
level_up_weapon_and_player(p, index) ==
    IF index <= Len(p.weapons)
    THEN [p EXCEPT !.weapons[index] = level_up(@), !.level = @ + 1]
    ELSE p

level_up_weapon(p, index) ==
    IF index <= Len(p.weapons) THEN [p EXCEPT !.weapons[index] = level_up(@)] ELSE p

PlayerCollider(p) == Circle(p.stats.radius)

\* speed > max_speed => vel = vel.normalize() * max_speed
clamp_velocity(vel, stats) ==
    IF Length100(vel) > 100 * stats.max_speed THEN NormScale(vel, stats.max_speed) ELSE vel

\* Player::input with the keys and the cursor of h
PlayerInput(p, h) ==
    LET a == RoundDiv(p.stats.acceleration, 100)
        acceleration ==
            CASE h.key = "Left" -> <<-a, 0>>
              [] h.key = "Right" -> <<a, 0>>
              [] h.key = "Up" -> <<0, -a>>
              [] h.key = "Down" -> <<0, a>>
              [] OTHER -> <<0, 0>>
        to_mouse == VSub(h.mouse, p.pos)
    IN  [p EXCEPT !.vel = clamp_velocity(VAdd(p.vel, acceleration), p.stats),
                  !.facing = IF Length100(to_mouse) > 100 THEN NormScale(to_mouse, 1) ELSE @]

RECURSIVE FireAll(_, _, _, _)
\* the loop over the weapons in Player::update, from weapon i on
FireAll(ws, i, pos, facing) ==
    IF i > Len(ws) THEN [weapons |-> ws, commands |-> <<>>]
    ELSE LET f == Fire(WeaponUpdate(ws[i], DT), pos, facing)
             rest == FireAll([ws EXCEPT ![i] = f.weapon], i + 1, pos, facing)
         IN  [weapons |-> rest.weapons, commands |-> f.commands \o rest.commands]

\* the player after update(dt), and the spawn commands it returns
PlayerUpdate(p) ==
    LET pos == VAdd(p.pos, p.vel)
        vel == <<TruncDiv(p.vel[1] * p.stats.friction, 100),
                 TruncDiv(p.vel[2] * p.stats.friction, 100)>>
        f == FireAll(p.weapons, 1, pos, p.facing)
    IN  [player |-> [p EXCEPT !.pos = pos, !.vel = vel, !.weapons = f.weapons],
         commands |-> f.commands]

----------------------------------------------------------------------------
(* Enemies (enemy.rs) *)

EnemyCollider(e) == Circle(e.stats.radius)

update_basic(e) ==
    LET a == RoundDiv(e.stats.acceleration, 100)
        acc_dir == <<IF e.vel[1] < 0 THEN -1 ELSE 1, IF e.vel[2] < 0 THEN -1 ELSE 1>>
    IN  [e EXCEPT !.vel = clamp_velocity(VAdd(e.vel, VScale(acc_dir, a)), e.stats)]

update_chaser(e, player_pos) ==
    LET to_player == VSub(player_pos, e.pos)
        desired_vel == NormScale(to_player, e.stats.max_speed)
        steering == <<RoundDiv((desired_vel[1] - e.vel[1]) * e.stats.acceleration, 100),
                      RoundDiv((desired_vel[2] - e.vel[2]) * e.stats.acceleration, 100)>>
        vel == IF Length100(to_player) > 100 THEN VAdd(e.vel, steering) ELSE e.vel
    IN  [e EXCEPT !.vel = clamp_velocity(vel, e.stats)]

EnemyUpdate(e, player_pos) ==
    LET m == IF e.enemy_type = "Basic" THEN update_basic(e) ELSE update_chaser(e, player_pos)
    IN  [m EXCEPT !.pos = VAdd(m.pos, m.vel)]

----------------------------------------------------------------------------
(* GameState (gamestate/mod.rs) *)

\* what the environment can do in one frame
HeldKeys == {"None", "Left"}
MousePositions == {<<0, 2>>, <<4, 2>>}
\* the player steers with the mouse on the left, or stands and aims left or right
Helds == {h \in [key : HeldKeys, mouse : MousePositions] :
            h.key = "Left" => h.mouse = <<0, 2>>}
NoHeld == [key |-> "None", mouse |-> <<0, 2>>]
\* wall-clock time between two frames: a short frame, a long frame, or none once
\* the model's clock has reached MaxElapsed
FrameDeltas == {0, 1, MaxDelta}
\* outcomes of get_spawn_position the model draws from
SpawnPositions == {<<0, 2>>, <<2, 0>>}
\* the positions of a wave of n enemies: all at one place, or alternating
SpawnPlans(n) ==
    {[k \in 1..n |-> a] : a \in SpawnPositions}
    \cup {[k \in 1..n |-> IF k % 2 = 1 THEN <<0, 2>> ELSE <<2, 0>>]}

UnwrapOr(r, default) == IF r.ok THEN r.val ELSE default

\* GameState::new() that zeroes the player stats when the script gives none
NewGameState_zeroed(s) ==
    LET player_stats == UnwrapOr(get_player_stats(s), EntityStats(0, 0, 0, 0))
        vc == UnwrapOr(get_visual_config(s), "default")
    IN  [player |-> [PlayerNew(ScreenW \div 2, ScreenH \div 2, player_stats)
                        EXCEPT !.visual_config = vc],
         visual_config |-> vc,
         game_constants |-> UnwrapOr(get_game_constants(s), GameConstants(1, 2)),
         basic_enemy_stats |-> UnwrapOr(get_enemy_stats(s, "Basic"), EntityStats(1, 1, 50, 95)),
         chaser_enemy_stats |-> UnwrapOr(get_enemy_stats(s, "Chaser"), EntityStats(1, 1, 80, 95))]

\* the fields of GameState::new() when waves.roto is s
NewGameState(s) ==
    LET player_stats == UnwrapOr(get_player_stats(s), EntityStats(1, 1, 100, 90))
        vc == UnwrapOr(get_visual_config(s), "default")
    IN  [player |-> [PlayerNew(ScreenW \div 2, ScreenH \div 2, player_stats)
                        EXCEPT !.visual_config = vc],
         visual_config |-> vc,
         game_constants |-> UnwrapOr(get_game_constants(s), GameConstants(1, 2)),
         basic_enemy_stats |-> UnwrapOr(get_enemy_stats(s, "Basic"), EntityStats(1, 1, 50, 95)),
         chaser_enemy_stats |-> UnwrapOr(get_enemy_stats(s, "Chaser"), EntityStats(1, 1, 80, 95))]

\* *gs = GameState::new(): every field of the game is replaced
New ==
    LET g == NewGameState(script)
    IN  /\ player' = g.player
        /\ visual_config' = g.visual_config
        /\ game_constants' = g.game_constants
        /\ basic_enemy_stats' = g.basic_enemy_stats
        /\ chaser_enemy_stats' = g.chaser_enemy_stats
        /\ t_passed' = 0
        /\ t_elapsed' = 0
        /\ n_logic_updates' = 0
        /\ enemies' = <<>>
        /\ projectiles' = <<>>
        /\ state' = "WeaponSelection"
        /\ next_state' = "None"
        /\ wave' = 0
        /\ error_message' = "None"
        /\ paused' = FALSE
        /\ next_entity_id' = 0
        /\ session_ids' = {}
        /\ enemies_to_despawn' = {}
        /\ projectiles_to_despawn' = {}

\* no function has been called on its own
NoCall == [fn |-> "None"]

\* what is kept of the start of a frame; no tick has run in it yet
FrameStart(st, p, es, ps) ==
    [state |-> st, player |-> p, enemies |-> es, projectiles |-> ps, num_updates |-> 0]

Init ==
    /\ script \in Scripts
    /\ LET g == NewGameState(script)
       IN  /\ player = g.player
           /\ visual_config = g.visual_config
           /\ game_constants = g.game_constants
           /\ basic_enemy_stats = g.basic_enemy_stats
           /\ chaser_enemy_stats = g.chaser_enemy_stats
    /\ t_passed = 0
    /\ t_elapsed = 0
    /\ n_logic_updates = 0
    /\ enemies = <<>>
    /\ projectiles = <<>>
    /\ state = "WeaponSelection"
    /\ next_state = "None"
    /\ wave = 0
    /\ error_message = "None"
    /\ paused = FALSE
    /\ next_entity_id = 0
    /\ enemies_to_despawn = {}
    /\ projectiles_to_despawn = {}
    /\ ticks_left = 0
    /\ held = NoHeld
    /\ pc = "frame"
    /\ issued = {}
    /\ session_ids = {}
    /\ player_hit = {}
    /\ frame0 = FrameStart(state, player, enemies, projectiles)
    /\ call = NoCall

\* variant: is_in_bounds with the border of the extended arena counted as outside
is_in_bounds_open(pos, margin) ==
    /\ pos[1] > -margin
    /\ pos[1] < ScreenW + margin
    /\ pos[2] > -margin
    /\ pos[2] < ScreenH + margin

is_in_bounds(pos, margin) ==
    /\ pos[1] >= -margin
    /\ pos[1] <= ScreenW + margin
    /\ pos[2] >= -margin
    /\ pos[2] <= ScreenH + margin

\* reload_roto_script_internal that leaves the enemies on the field as they are
ReloadInternal_new_enemies_only ==
    LET r1 == get_player_stats(script)
        r2 == get_game_constants(script)
        r3 == get_enemy_stats(script, "Basic")
        r4 == get_enemy_stats(script, "Chaser")
        r5 == get_visual_config(script)
        old == [err |-> "None", player |-> player, game_constants |-> game_constants,
                basic_enemy_stats |-> basic_enemy_stats,
                chaser_enemy_stats |-> chaser_enemy_stats,
                enemies |-> enemies, visual_config |-> visual_config]
        s1 == [old EXCEPT !.player.stats = r1.val]
        s2 == [s1 EXCEPT !.game_constants = r2.val]
        s3 == [s2 EXCEPT !.basic_enemy_stats = r3.val]
        s4 == [s3 EXCEPT !.chaser_enemy_stats = r4.val]
        s6 == [s4 EXCEPT !.visual_config = r5.val, !.player.visual_config = r5.val]
    IN  IF ~r1.ok THEN [old EXCEPT !.err = r1.err]
        ELSE IF ~r2.ok THEN [s1 EXCEPT !.err = r2.err]
        ELSE IF ~r3.ok THEN [s2 EXCEPT !.err = r3.err]
        ELSE IF ~r4.ok THEN [s3 EXCEPT !.err = r4.err]
        ELSE IF ~r5.ok THEN [s4 EXCEPT !.err = r5.err]
        ELSE s6

\* the outcome of reload_roto_script_internal: its result and the fields it wrote
ReloadInternal ==
    LET r1 == get_player_stats(script)
        r2 == get_game_constants(script)
        r3 == get_enemy_stats(script, "Basic")
        r4 == get_enemy_stats(script, "Chaser")
        r5 == get_visual_config(script)
        old == [err |-> "None", player |-> player, game_constants |-> game_constants,
                basic_enemy_stats |-> basic_enemy_stats,
                chaser_enemy_stats |-> chaser_enemy_stats,
                enemies |-> enemies, visual_config |-> visual_config]
        s1 == [old EXCEPT !.player.stats = r1.val]
        s2 == [s1 EXCEPT !.game_constants = r2.val]
        s3 == [s2 EXCEPT !.basic_enemy_stats = r3.val]
        s4 == [s3 EXCEPT !.chaser_enemy_stats = r4.val]
        s5 == [s4 EXCEPT !.enemies =
                 [i \in DOMAIN enemies |->
                    [enemies[i] EXCEPT !.stats =
                        IF enemies[i].enemy_type = "Basic" THEN r3.val ELSE r4.val]]]
        s6 == [s5 EXCEPT !.visual_config = r5.val, !.player.visual_config = r5.val]
    IN  IF ~r1.ok THEN [old EXCEPT !.err = r1.err]
        ELSE IF ~r2.ok THEN [s1 EXCEPT !.err = r2.err]
        ELSE IF ~r3.ok THEN [s2 EXCEPT !.err = r3.err]
        ELSE IF ~r4.ok THEN [s3 EXCEPT !.err = r4.err]
        ELSE IF ~r5.ok THEN [s5 EXCEPT !.err = r5.err]
        ELSE s6

\* reload_roto_scripts
Reload ==
    LET r == ReloadInternal
    IN  /\ player' = r.player
        /\ game_constants' = r.game_constants
        /\ basic_enemy_stats' = r.basic_enemy_stats
        /\ chaser_enemy_stats' = r.chaser_enemy_stats
        /\ enemies' = r.enemies
        /\ visual_config' = r.visual_config
        /\ next_state' = IF r.err = "None" THEN "Playing" ELSE "ScriptError"
        /\ error_message' = r.err

\* the projectile spawn_projectile builds for a spawn command
NewProjectile(id, c) ==
    LET stats == ProjectileStatsFrom(c.projectile_type)
    IN  [id |-> id, pos |-> c.pos,
         vel |-> IF c.projectile_type = "Pulse" THEN <<0, 0>>
                 ELSE NormScale(c.vel, stats.speed),
         projectile_type |-> c.projectile_type, stats |-> stats,
         time_remaining |-> stats.time_to_live, source_pos |-> c.pos,
         visual_config |-> visual_config]

\* the enemy spawn_enemy builds: it heads for the centre of the screen (the
\* random offset of the target drawn as 0, the random speed as 1)
NewEnemy(id, enemy_type, pos) ==
    LET stats == IF enemy_type = "Basic" THEN basic_enemy_stats ELSE chaser_enemy_stats
        target == <<ScreenW \div 2, ScreenH \div 2>>
    IN  [id |-> id, pos |-> pos, vel |-> NormScale(VSub(target, pos), 1),
         enemy_type |-> enemy_type, stats |-> stats, visual_config |-> visual_config]

\* variant: the counter is not incremented for the last entity spawned
HandOut_one_short(n) ==
    LET new == next_entity_id .. (next_entity_id + n - 1)
    IN  /\ next_entity_id' = IF n > 0 THEN next_entity_id + n - 1 ELSE next_entity_id
        /\ issued' = issued \cup new
        /\ session_ids' = session_ids \cup new

\* history of the ids handed out: ids are next_entity_id .. next_entity_id + n - 1
HandOut(n) ==
    LET new == next_entity_id .. (next_entity_id + n - 1)
    IN  /\ next_entity_id' = next_entity_id + n
        /\ issued' = issued \cup new
        /\ session_ids' = session_ids \cup new

\* set_next_state
set_next_state(s) == next_state' = s

----------------------------------------------------------------------------
(* The frame loop: env step, process_global_input, the phase's process,     *)
(* apply_next_state.                                                          *)

\* next_frame().await: time passes
NextFrame ==
    /\ pc = "frame"
    /\ \E d \in FrameDeltas :
        /\ d = 0 => t_elapsed = MaxElapsed
        /\ t_elapsed + d <= MaxElapsed
        /\ t_elapsed' = t_elapsed + d
    /\ player_hit' = {}
    /\ frame0' = FrameStart(state, player, enemies, projectiles)
    /\ call' = call
    /\ pc' = "input"
    /\ UNCHANGED <<state, next_state, player, enemies, projectiles, enemies_to_despawn,
                   projectiles_to_despawn, next_entity_id, wave, error_message, paused,
                   visual_config, game_constants, basic_enemy_stats, chaser_enemy_stats,
                   t_passed, n_logic_updates, ticks_left, held, script, issued,
                   session_ids>>

\* process_global_input: R reloads the scripts, then P toggles the pause
ProcessGlobalInput ==
    /\ pc = "input"
    /\ pc' = "process"
    /\ \E key_r, key_p \in BOOLEAN :
        /\ IF key_r
           THEN Reload
           ELSE UNCHANGED <<player, game_constants, basic_enemy_stats, chaser_enemy_stats,
                            enemies, visual_config, next_state, error_message>>
        /\ paused' = IF key_p THEN ~paused ELSE paused
    /\ UNCHANGED <<state, projectiles, enemies_to_despawn, projectiles_to_despawn,
                   next_entity_id, wave, t_passed, n_logic_updates, t_elapsed, ticks_left,
                   held, script, issued, session_ids, player_hit, frame0, call>>

\* index of the weapon of that type, 0 when the player has none
WeaponIndex(ws, weapon_type) ==
    IF \E i \in 1..Len(ws) : ws[i].weapon_type = weapon_type
    THEN CHOOSE i \in 1..Len(ws) :
            /\ ws[i].weapon_type = weapon_type
            /\ \A j \in 1..(i - 1) : ws[j].weapon_type # weapon_type
    ELSE 0

\* variant: handle_weapon_selection that stays in the menu after an upgrade
handle_weapon_selection_silent_upgrade(p, weapon_type) ==
    LET index == WeaponIndex(p.weapons, weapon_type)
    IN  IF index # 0
        THEN [player |-> level_up_weapon(p, index), request |-> FALSE]
        ELSE IF Len(p.weapons) < 3
        THEN [player |-> add_weapon(p, weapon_type), request |-> TRUE]
        ELSE [player |-> p, request |-> FALSE]

\* variant: handle_weapon_selection without the lookup of an owned weapon
handle_weapon_selection_always_add(p, weapon_type) ==
    IF Len(p.weapons) < 3
    THEN [player |-> add_weapon(p, weapon_type), request |-> TRUE]
    ELSE [player |-> p, request |-> FALSE]

\* the player after handle_weapon_selection, and whether Playing is requested
handle_weapon_selection(p, weapon_type) ==
    LET index == WeaponIndex(p.weapons, weapon_type)
    IN  IF index # 0
        THEN [player |-> level_up_weapon(p, index), request |-> TRUE]
        ELSE IF Len(p.weapons) < 3
        THEN [player |-> add_weapon(p, weapon_type), request |-> TRUE]
        ELSE [player |-> p, request |-> FALSE]

KeyWeapon(key) ==
    CASE key = "Key1" -> "EnergyBall"
      [] key = "Key2" -> "Pulse"
      [] key = "Key3" -> "HomingMissile"

\* weapon_selection::process
WeaponSelectionProcess ==
    /\ pc = "process"
    /\ state = "WeaponSelection"
    /\ pc' = "apply"
    /\ \E key \in {"None", "Key1", "Key2", "Key3"} :
        IF key = "None"
        THEN UNCHANGED <<player, next_state>>
        ELSE LET r == handle_weapon_selection(player, KeyWeapon(key))
             IN  /\ \A i \in 1..Len(r.player.weapons) :
                        r.player.weapons[i].level <= MaxWeaponLevel
                 /\ player' = r.player
                 /\ IF r.request THEN set_next_state("Playing") ELSE UNCHANGED next_state
    /\ UNCHANGED <<state, enemies, projectiles, enemies_to_despawn, projectiles_to_despawn,
                   next_entity_id, wave, error_message, paused, visual_config,
                   game_constants, basic_enemy_stats, chaser_enemy_stats, t_passed,
                   n_logic_updates, t_elapsed, ticks_left, held, script, issued, session_ids,
                   player_hit, frame0, call>>

\* gameover::process that lifts the pause when Return is not pressed
GameOverProcess_unpauses ==
    /\ pc = "process"
    /\ state = "GameOver"
    /\ pc' = "apply"
    /\ \E enter \in BOOLEAN :
        IF enter THEN New
        ELSE /\ paused' = FALSE
             /\ UNCHANGED <<state, next_state, player, enemies, projectiles,
                            enemies_to_despawn, projectiles_to_despawn, next_entity_id, wave,
                            error_message, visual_config, game_constants,
                            basic_enemy_stats, chaser_enemy_stats, t_passed, n_logic_updates,
                            t_elapsed, session_ids>>
    /\ UNCHANGED <<ticks_left, held, script, issued, player_hit, frame0, call>>

\* gameover::process: Return restarts the game
GameOverProcess ==
    /\ pc = "process"
    /\ state = "GameOver"
    /\ pc' = "apply"
    /\ \E enter \in BOOLEAN :
        IF enter THEN New
        ELSE UNCHANGED <<state, next_state, player, enemies, projectiles,
                         enemies_to_despawn, projectiles_to_despawn, next_entity_id, wave,
                         error_message, paused, visual_config, game_constants,
                         basic_enemy_stats, chaser_enemy_stats, t_passed, n_logic_updates,
                         t_elapsed, session_ids>>
    /\ UNCHANGED <<ticks_left, held, script, issued, player_hit, frame0, call>>

\* won::process: Return restarts the game.  GameStateEnum of this source has no
\* Won variant and nothing requests it; the phase is entered in InitRestart only.
WonProcess ==
    /\ pc = "process"
    /\ state = "Won"
    /\ pc' = "apply"
    /\ \E enter \in BOOLEAN :
        IF enter THEN New
        ELSE UNCHANGED <<state, next_state, player, enemies, projectiles,
                         enemies_to_despawn, projectiles_to_despawn, next_entity_id, wave,
                         error_message, paused, visual_config, game_constants,
                         basic_enemy_stats, chaser_enemy_stats, t_passed, n_logic_updates,
                         t_elapsed, session_ids>>
    /\ UNCHANGED <<ticks_left, held, script, issued, player_hit, frame0, call>>

\* script_error::process: Return restarts the game
ScriptErrorProcess ==
    /\ pc = "process"
    /\ state = "ScriptError"
    /\ pc' = "apply"
    /\ \E enter \in BOOLEAN :
        IF enter THEN New
        ELSE UNCHANGED <<state, next_state, player, enemies, projectiles,
                         enemies_to_despawn, projectiles_to_despawn, next_entity_id, wave,
                         error_message, paused, visual_config, game_constants,
                         basic_enemy_stats, chaser_enemy_stats, t_passed, n_logic_updates,
                         t_elapsed, session_ids>>
    /\ UNCHANGED <<ticks_left, held, script, issued, player_hit, frame0, call>>

----------------------------------------------------------------------------
(* playing::process and update_logic (gamestate/playing.rs) *)

\* spawn_wave that spawns every enemy of the wave as a Basic one
SpawnWave_all_basic(config, ps) ==
    LET n == config.basic_enemy_count + config.chaser_enemy_count
    IN  /\ enemies' = enemies \o
            [k \in 1..n |-> NewEnemy(next_entity_id + k - 1, "Basic", ps[k])]
        /\ HandOut(n)

\* spawn_wave: the Basic enemies, then the Chasers, at the positions ps
SpawnWave(config, ps) ==
    LET n == config.basic_enemy_count + config.chaser_enemy_count
    IN  /\ enemies' = enemies \o
            [k \in 1..n |->
                NewEnemy(next_entity_id + k - 1,
                         IF k <= config.basic_enemy_count THEN "Basic" ELSE "Chaser",
                         ps[k])]
        /\ HandOut(n)

\* variant: the failure branch counting the wave as spawned
WaveConfigFailed_WaveAdvanced(err) ==
    /\ state' = "ScriptError"
    /\ error_message' = err
    /\ wave' = wave + 1
    /\ UNCHANGED <<enemies, next_entity_id, issued, session_ids>>

\* playing::process, lines 21-24: get_wave_config returned Err(err)
WaveConfigFailed(err) ==
    /\ state' = "ScriptError"
    /\ error_message' = err
    /\ UNCHANGED <<enemies, wave, next_entity_id, issued, session_ids>>

\* playing::process, lines 10-26: a new wave when no enemy is left
PlayingWave ==
    /\ pc = "process"
    /\ state = "Playing"
    /\ pc' = "time"
    /\ held' \in Helds
    /\ IF enemies = <<>>
       THEN LET r == get_wave_config(script, wave)
            IN  IF r.ok
                THEN LET n == r.val.basic_enemy_count + r.val.chaser_enemy_count
                     IN  /\ next_entity_id + n <= MaxId
                         /\ \E ps \in SpawnPlans(n) : SpawnWave(r.val, ps)
                         /\ wave' = wave + 1
                         /\ UNCHANGED <<state, error_message>>
                ELSE WaveConfigFailed(r.err)
       ELSE UNCHANGED <<state, error_message, enemies, wave, next_entity_id, issued, session_ids>>
    /\ UNCHANGED <<next_state, player, projectiles, enemies_to_despawn,
                   projectiles_to_despawn, paused, visual_config, game_constants,
                   basic_enemy_stats, chaser_enemy_stats, t_passed, n_logic_updates,
                   t_elapsed, ticks_left, script, player_hit, frame0, call>>

\* variant: update_time_for_logic that returns one tick per frame at most and
\* drops the rest of the accumulated time
UpdateTimeForLogic_OneTickPerFrame ==
    /\ pc = "time"
    /\ LET total == t_passed + t_elapsed
           n == Min2(1, n_logic_updates + total \div DT)
       IN  /\ t_passed' = total % DT
           /\ ticks_left' = n
           /\ n_logic_updates' = IF n > 0 THEN 0 ELSE n
           /\ pc' = IF n > 0 THEN "tick" ELSE "apply"
           /\ frame0' = [frame0 EXCEPT !.num_updates = n]
           /\ call' = call
    /\ t_elapsed' = 0
    /\ UNCHANGED <<state, next_state, player, enemies, projectiles, enemies_to_despawn,
                   projectiles_to_despawn, next_entity_id, wave, error_message, paused,
                   visual_config, game_constants, basic_enemy_stats, chaser_enemy_stats,
                   held, script, issued, session_ids, player_hit>>

\* variant: update_time_for_logic that moves the enemies by their velocity, once
\* per frame, whether or not a tick is due
UpdateTimeForLogic_MovesEnemies ==
    /\ pc = "time"
    /\ LET total == t_passed + t_elapsed
           n == n_logic_updates + total \div DT
       IN  /\ t_passed' = total % DT
           /\ ticks_left' = n
           /\ n_logic_updates' = IF n > 0 THEN 0 ELSE n
           /\ pc' = IF n > 0 THEN "tick" ELSE "apply"
           /\ frame0' = [frame0 EXCEPT !.num_updates = n]
           /\ call' = call
    /\ t_elapsed' = 0
    /\ enemies' = [i \in DOMAIN enemies |->
                        [enemies[i] EXCEPT !.pos = VAdd(@, enemies[i].vel)]]
    /\ UNCHANGED <<state, next_state, player, projectiles, enemies_to_despawn,
                   projectiles_to_despawn, next_entity_id, wave, error_message, paused,
                   visual_config, game_constants, basic_enemy_stats, chaser_enemy_stats,
                   held, script, issued, session_ids, player_hit>>

\* update_time_for_logic: the whole ticks in the accumulated time
UpdateTimeForLogic ==
    /\ pc = "time"
    /\ LET total == t_passed + t_elapsed
           n == n_logic_updates + total \div DT
       IN  /\ t_passed' = total % DT
           /\ ticks_left' = n
           /\ n_logic_updates' = IF n > 0 THEN 0 ELSE n
           /\ pc' = IF n > 0 THEN "tick" ELSE "apply"
           /\ frame0' = [frame0 EXCEPT !.num_updates = n]
           /\ call' = call
    /\ t_elapsed' = 0
    /\ UNCHANGED <<state, next_state, player, enemies, projectiles, enemies_to_despawn,
                   projectiles_to_despawn, next_entity_id, wave, error_message, paused,
                   visual_config, game_constants, basic_enemy_stats, chaser_enemy_stats,
                   held, script, issued, session_ids, player_hit>>

\* where the loop of playing::process goes after one iteration
AfterTick ==
    /\ ticks_left' = ticks_left - 1
    /\ pc' = IF ticks_left > 1 THEN "tick" ELSE "apply"

\* variant: the projectiles keep flying while the game is paused
TickPaused_ProjectilesFly ==
    /\ pc = "tick"
    /\ paused
    /\ AfterTick
    /\ projectiles' = [i \in DOMAIN projectiles |-> ProjectileUpdate(projectiles[i], DT)]
    /\ UNCHANGED <<state, next_state, player, enemies, enemies_to_despawn,
                   projectiles_to_despawn, next_entity_id, wave, error_message, paused,
                   visual_config, game_constants, basic_enemy_stats, chaser_enemy_stats,
                   t_passed, n_logic_updates, t_elapsed, held, script, issued, session_ids,
                   player_hit, frame0, call>>

\* an iteration of the loop while the game is paused does nothing
TickPaused ==
    /\ pc = "tick"
    /\ paused
    /\ AfterTick
    /\ UNCHANGED <<state, next_state, player, enemies, projectiles, enemies_to_despawn,
                   projectiles_to_despawn, next_entity_id, wave, error_message, paused,
                   visual_config, game_constants, basic_enemy_stats, chaser_enemy_stats,
                   t_passed, n_logic_updates, t_elapsed, held, script, issued, session_ids,
                   player_hit, frame0, call>>

\* player.input() and update_logic, lines 42-55: the player moves and fires, the
\* spawn commands are executed, the enemies and the projectiles move
TickUpdate ==
    /\ pc = "tick"
    /\ ~paused
    /\ LET u == PlayerUpdate(PlayerInput(player, held))
           n == Len(u.commands)
           es == [i \in DOMAIN enemies |-> EnemyUpdate(enemies[i], u.player.pos)]
           ps == projectiles \o
                 [k \in 1..n |-> NewProjectile(next_entity_id + k - 1, u.commands[k])]
       IN  /\ next_entity_id + n <= MaxId
           /\ player' = u.player
           /\ HandOut(n)
           /\ enemies' = es
           /\ projectiles' =
                [i \in DOMAIN ps |-> update_homing(ProjectileUpdate(ps[i], DT), DT, es)]
    /\ pc' = "mark"
    /\ UNCHANGED <<state, next_state, enemies_to_despawn, projectiles_to_despawn, wave,
                   error_message, paused, visual_config, game_constants,
                   basic_enemy_stats, chaser_enemy_stats, t_passed, n_logic_updates,
                   t_elapsed, ticks_left, held, script, player_hit, frame0, call>>

\* update_logic, lines 57-66: expired and out-of-bounds entities are marked
TickMark ==
    /\ pc = "mark"
    /\ LET margin == game_constants.out_of_bounds_margin
       IN  /\ projectiles_to_despawn' = projectiles_to_despawn
                \cup {projectiles[i].id : i \in {j \in DOMAIN projectiles :
                                                    is_expired(projectiles[j])}}
                \cup {projectiles[i].id : i \in {j \in DOMAIN projectiles :
                        /\ projectiles[j].projectile_type # "Pulse"
                        /\ ~is_in_bounds(projectiles[j].pos, margin)}}
           /\ enemies_to_despawn' = enemies_to_despawn
                \cup {enemies[i].id : i \in {j \in DOMAIN enemies :
                                                ~is_in_bounds(enemies[j].pos, margin)}}
    /\ pc' = "collide"
    /\ UNCHANGED <<state, next_state, player, enemies, projectiles, next_entity_id, wave,
                   error_message, paused, visual_config, game_constants,
                   basic_enemy_stats, chaser_enemy_stats, t_passed, n_logic_updates,
                   t_elapsed, ticks_left, held, script, issued, session_ids, player_hit, frame0, call>>

\* ids of the enemies whose collider overlaps the player's
EnemiesHittingPlayer ==
    {enemies[i].id : i \in {j \in DOMAIN enemies :
        check_collision(PlayerCollider(player), player.pos,
                        EnemyCollider(enemies[j]), enemies[j].pos).collided}}

ProjectileHits(p, e) ==
    check_collision(ProjectileCollider(p), p.pos, EnemyCollider(e), e.pos).collided

RECURSIVE EnemyPairs(_, _, _)
\* variant: the impulse is taken from both enemies of a pair
EnemyPairs_same_sign(es, i, j) ==
    IF i > Len(es) THEN es
    ELSE IF j > Len(es) THEN EnemyPairs(es, i + 1, i + 2)
    ELSE LET c == check_collision(EnemyCollider(es[i]), es[i].pos,
                                  EnemyCollider(es[j]), es[j].pos)
             rel_vel == VSub(es[i].vel, es[j].vel)
             vel_along_normal == Dot(rel_vel, c.normal)
             impulse == <<RoundDiv(c.normal[1] * vel_along_normal, 10000),
                          RoundDiv(c.normal[2] * vel_along_normal, 10000)>>
         IN  IF c.collided /\ vel_along_normal < 0
             THEN EnemyPairs([es EXCEPT ![i].vel = VSub(@, impulse),
                                        ![j].vel = VSub(@, impulse)], i, j + 1)
             ELSE EnemyPairs(es, i, j + 1)

\* check_enemy_collisions: the loops over the pairs i < j, from the pair (i, j) on
EnemyPairs(es, i, j) ==
    IF i > Len(es) THEN es
    ELSE IF j > Len(es) THEN EnemyPairs(es, i + 1, i + 2)
    ELSE LET c == check_collision(EnemyCollider(es[i]), es[i].pos,
                                  EnemyCollider(es[j]), es[j].pos)
             rel_vel == VSub(es[i].vel, es[j].vel)
             vel_along_normal == Dot(rel_vel, c.normal)
             impulse == <<RoundDiv(c.normal[1] * vel_along_normal, 10000),
                          RoundDiv(c.normal[2] * vel_along_normal, 10000)>>
         IN  IF c.collided /\ vel_along_normal < 0
             THEN EnemyPairs([es EXCEPT ![i].vel = VSub(@, impulse),
                                        ![j].vel = VAdd(@, impulse)], i, j + 1)
             ELSE EnemyPairs(es, i, j + 1)

\* variant: check_collisions in which a Pulse is used up by a hit like the others
CheckCollisions_PulseSpent ==
    /\ pc = "collide"
    /\ LET hit == EnemiesHittingPlayer
           game_over == hit # {}
           shot == {enemies[j].id : j \in {k \in DOMAIN enemies :
                        \E i \in DOMAIN projectiles : ProjectileHits(projectiles[i], enemies[k])}}
           spent == {projectiles[i].id : i \in {k \in DOMAIN projectiles :
                        \E j \in DOMAIN enemies : ProjectileHits(projectiles[k], enemies[j])}}
       IN  /\ enemies_to_despawn' = enemies_to_despawn \cup hit \cup shot
           /\ projectiles_to_despawn' = projectiles_to_despawn \cup spent
           /\ IF game_over THEN set_next_state("GameOver") ELSE UNCHANGED next_state
           /\ player_hit' = player_hit \cup hit
    /\ UNCHANGED <<frame0, call>>
    /\ enemies' = EnemyPairs(enemies, 1, 2)
    /\ pc' = "bounds"
    /\ UNCHANGED <<state, player, projectiles, next_entity_id, wave, error_message, paused,
                   visual_config, game_constants, basic_enemy_stats, chaser_enemy_stats,
                   t_passed, n_logic_updates, t_elapsed, ticks_left, held, script, issued,
                   session_ids>>

\* check_collisions: player-enemy, projectile-enemy, enemy-enemy
CheckCollisions ==
    /\ pc = "collide"
    /\ LET hit == EnemiesHittingPlayer
           game_over == hit # {}
           shot == {enemies[j].id : j \in {k \in DOMAIN enemies :
                        \E i \in DOMAIN projectiles : ProjectileHits(projectiles[i], enemies[k])}}
           spent == {projectiles[i].id : i \in {k \in DOMAIN projectiles :
                        /\ projectiles[k].projectile_type # "Pulse"
                        /\ \E j \in DOMAIN enemies : ProjectileHits(projectiles[k], enemies[j])}}
       IN  /\ enemies_to_despawn' = enemies_to_despawn \cup hit \cup shot
           /\ projectiles_to_despawn' = projectiles_to_despawn \cup spent
           /\ IF game_over THEN set_next_state("GameOver") ELSE UNCHANGED next_state
           /\ player_hit' = player_hit \cup hit
    /\ UNCHANGED <<frame0, call>>
    /\ enemies' = EnemyPairs(enemies, 1, 2)
    /\ pc' = "bounds"
    /\ UNCHANGED <<state, player, projectiles, next_entity_id, wave, error_message, paused,
                   visual_config, game_constants, basic_enemy_stats, chaser_enemy_stats,
                   t_passed, n_logic_updates, t_elapsed, ticks_left, held, script, issued,
                   session_ids>>

\* check_player_bounds: leaving the screen ends the game
CheckPlayerBounds ==
    /\ pc = "bounds"
    /\ IF \/ player.pos[1] < 0
          \/ player.pos[1] > ScreenW
          \/ player.pos[2] < 0
          \/ player.pos[2] > ScreenH
       THEN set_next_state("GameOver")
       ELSE UNCHANGED next_state
    /\ pc' = "despawn"
    /\ UNCHANGED <<state, player, enemies, projectiles, enemies_to_despawn,
                   projectiles_to_despawn, next_entity_id, wave, error_message, paused,
                   visual_config, game_constants, basic_enemy_stats, chaser_enemy_stats,
                   t_passed, n_logic_updates, t_elapsed, ticks_left, held, script, issued,
                   session_ids, player_hit, frame0, call>>

\* variant: 1 XP per batch instead of 1 XP per marked enemy
AwardXp_OnePerBatch(enemies_killed) ==
    IF enemies_killed > 0
    THEN LET r == add_xp(player, 1)
         IN  /\ player' = r.player
             /\ IF r.leveled_up THEN set_next_state("WeaponSelection")
                ELSE UNCHANGED next_state
    ELSE UNCHANGED <<player, next_state>>

\* lines 441-450 of process_despawns: 1 XP per marked enemy, and the level-up
AwardXp(enemies_killed) ==
    IF enemies_killed > 0
    THEN LET r == add_xp(player, enemies_killed)
         IN  /\ player' = r.player
             /\ IF r.leveled_up THEN set_next_state("WeaponSelection")
                ELSE UNCHANGED next_state
    ELSE UNCHANGED <<player, next_state>>

\* variant: process_despawns that leaves the marks in place
ClearDespawnSets_Skipped == UNCHANGED <<enemies_to_despawn, projectiles_to_despawn>>

\* lines 456-457 of process_despawns
ClearDespawnSets ==
    /\ enemies_to_despawn' = {}
    /\ projectiles_to_despawn' = {}

\* process_despawns that compacts the enemies only
ProcessDespawns_enemies_only ==
    /\ pc = "despawn"
    /\ AwardXp(Cardinality(enemies_to_despawn))
    /\ LET KeepEnemy(e) == e.id \notin enemies_to_despawn
       IN  /\ enemies' = SelectSeq(enemies, KeepEnemy)
           /\ projectiles' = projectiles
    /\ ClearDespawnSets
    /\ AfterTick
    /\ UNCHANGED <<state, next_entity_id, wave, error_message, paused, visual_config,
                   game_constants, basic_enemy_stats, chaser_enemy_stats, t_passed,
                   n_logic_updates, t_elapsed, held, script, issued, session_ids, player_hit, frame0, call>>

\* process_despawns: award the XP, remove the marked entities (Vec::retain keeps
\* the others in their order), clear the marks
ProcessDespawns ==
    /\ pc = "despawn"
    /\ AwardXp(Cardinality(enemies_to_despawn))
    /\ LET KeepEnemy(e) == e.id \notin enemies_to_despawn
           KeepProjectile(p) == p.id \notin projectiles_to_despawn
       IN  /\ enemies' = SelectSeq(enemies, KeepEnemy)
           /\ projectiles' = SelectSeq(projectiles, KeepProjectile)
    /\ ClearDespawnSets
    /\ AfterTick
    /\ UNCHANGED <<state, next_entity_id, wave, error_message, paused, visual_config,
                   game_constants, basic_enemy_stats, chaser_enemy_stats, t_passed,
                   n_logic_updates, t_elapsed, held, script, issued, session_ids, player_hit, frame0, call>>

\* apply_next_state that leaves t_prev alone when Playing is entered
ApplyNextState_keeps_clock ==
    /\ pc = "apply"
    /\ IF next_state # "None"
       THEN /\ state' = next_state
            /\ next_state' = "None"
            /\ t_elapsed' = t_elapsed
            /\ player' = IF next_state = "GameOver"
                         THEN PlayerReset(player, ScreenW \div 2, ScreenH \div 2)
                         ELSE player
       ELSE UNCHANGED <<state, next_state, t_elapsed, player>>
    /\ held' = NoHeld
    /\ pc' = "frame"
    /\ UNCHANGED <<enemies, projectiles, enemies_to_despawn, projectiles_to_despawn,
                   next_entity_id, wave, error_message, paused, visual_config,
                   game_constants, basic_enemy_stats, chaser_enemy_stats, t_passed,
                   n_logic_updates, ticks_left, script, issued, session_ids, player_hit, frame0, call>>

\* variant: apply_next_state reads the request without taking it
ApplyNextState_keeps_request ==
    /\ pc = "apply"
    /\ IF next_state # "None"
       THEN /\ state' = next_state
            /\ next_state' = next_state
            /\ t_elapsed' = IF next_state = "Playing" THEN 0 ELSE t_elapsed
            /\ player' = IF next_state = "GameOver"
                         THEN PlayerReset(player, ScreenW \div 2, ScreenH \div 2)
                         ELSE player
       ELSE UNCHANGED <<state, next_state, t_elapsed, player>>
    /\ held' = NoHeld
    /\ pc' = "frame"
    /\ UNCHANGED <<enemies, projectiles, enemies_to_despawn, projectiles_to_despawn,
                   next_entity_id, wave, error_message, paused, visual_config,
                   game_constants, basic_enemy_stats, chaser_enemy_stats, t_passed,
                   n_logic_updates, ticks_left, script, issued, session_ids, player_hit, frame0, call>>

\* apply_next_state: the pending request, if any, becomes the phase
ApplyNextState ==
    /\ pc = "apply"
    /\ IF next_state # "None"
       THEN /\ state' = next_state
            /\ next_state' = "None"
            /\ t_elapsed' = IF next_state = "Playing" THEN 0 ELSE t_elapsed
            /\ player' = IF next_state = "GameOver"
                         THEN PlayerReset(player, ScreenW \div 2, ScreenH \div 2)
                         ELSE player
       ELSE UNCHANGED <<state, next_state, t_elapsed, player>>
    /\ held' = NoHeld
    /\ pc' = "frame"
    /\ UNCHANGED <<enemies, projectiles, enemies_to_despawn, projectiles_to_despawn,
                   next_entity_id, wave, error_message, paused, visual_config,
                   game_constants, basic_enemy_stats, chaser_enemy_stats, t_passed,
                   n_logic_updates, ticks_left, script, issued, session_ids, player_hit, frame0, call>>

Next ==
    \/ NextFrame
    \/ ProcessGlobalInput
    \/ WeaponSelectionProcess
    \/ GameOverProcess
    \/ ScriptErrorProcess
    \/ PlayingWave
    \/ UpdateTimeForLogic
    \/ TickPaused
    \/ TickUpdate
    \/ TickMark
    \/ CheckCollisions
    \/ CheckPlayerBounds
    \/ ProcessDespawns
    \/ ApplyNextState

Spec == Init /\ [][Next]_vars


----------------------------------------------------------------------------
(* The game while waves.roto is edited between frames.  The file is read    *)
(* again at every call of the provider, so an edit shows at the next call.  *)

\* entity ids handed out per GameState in the runs with edits
MaxIdEdit == 2
\* times the file is saved in one run
MaxEdits == 1

\* the file is saved with other contents while the game waits for the next frame
EditScript ==
    /\ pc = "frame"
    /\ script.rev < MaxEdits
    /\ \E c \in Contents :
        /\ c # [ver |-> script.ver, fault |-> script.fault]
        /\ script' = Script(c, script.rev + 1)
    /\ UNCHANGED <<state, next_state, player, enemies, projectiles, enemies_to_despawn,
                   projectiles_to_despawn, next_entity_id, wave, error_message, paused,
                   visual_config, game_constants, basic_enemy_stats, chaser_enemy_stats,
                   t_passed, n_logic_updates, t_elapsed, ticks_left, held, pc, issued,
                   session_ids, player_hit, frame0, call>>

GameStep == Next /\ next_entity_id' <= MaxIdEdit

NextEdit ==
    \/ EditScript
    \/ GameStep

SpecEdit == Init /\ [][NextEdit]_vars

----------------------------------------------------------------------------
(* Player::add_xp under batches of any size: the despawn step of a tick,    *)
(* started from a new player, for every number of enemies killed.           *)

\* most enemies removed in one tick
MaxBatch == 16
\* XP at which the runs of add_xp stop
MaxXp == 60

DespawnBatch ==
    /\ pc = "frame"
    /\ \E enemies_killed \in 1..MaxBatch :
        /\ player.xp + enemies_killed <= MaxXp
        /\ AwardXp(enemies_killed)
    /\ UNCHANGED <<state, enemies, projectiles, enemies_to_despawn, projectiles_to_despawn,
                   next_entity_id, wave, error_message, paused, visual_config,
                   game_constants, basic_enemy_stats, chaser_enemy_stats, t_passed,
                   n_logic_updates, t_elapsed, ticks_left, held, script, pc, issued,
                   session_ids, player_hit, frame0, call>>

\* the pending request is taken, as by apply_next_state
TakeRequest ==
    /\ pc = "frame"
    /\ next_state # "None"
    /\ next_state' = "None"
    /\ UNCHANGED <<state, player, enemies, projectiles, enemies_to_despawn,
                   projectiles_to_despawn, next_entity_id, wave, error_message, paused,
                   visual_config, game_constants, basic_enemy_stats, chaser_enemy_stats,
                   t_passed, n_logic_updates, t_elapsed, ticks_left, held, script, pc,
                   issued, session_ids, player_hit, frame0, call>>

InitXp == Init /\ script = Script([ver |-> 1, fault |-> "none"], 0)

NextXp ==
    \/ DespawnBatch
    \/ TakeRequest

SpecXp == InitXp /\ [][NextXp]_vars


----------------------------------------------------------------------------
(* Properties *)

\* C1: an enemy whose collider overlapped the player's in the collision pass of a
\* tick is gone at the end of that tick, and when the ticks of the frame are over
\* the request the apply step finds is GameOver.
C1_PlayerHitEndsGame ==
    /\ pc \in {"tick", "apply"} =>
            \A i \in DOMAIN enemies : enemies[i].id \notin player_hit
    /\ (pc = "apply" /\ player_hit # {}) => next_state = "GameOver"

\* C2: while a Playing frame is processed (wave spawning, every step of every
\* tick) the phase keeps its value: only the apply step changes it.
C2_PhaseChangesOnlyInApply ==
    [][(state = "Playing" /\ pc # "apply" /\ pc # "frame" /\ pc # "input")
            => state' = state]_vars

\* C3: a reload that fails at one of its configuration calls leaves the player,
\* the game constants, the enemy stats, the enemies and the visual config as they
\* were, requests ScriptError and sets the error message.
C3_FailedReloadKeepsValues ==
    [][(pc = "input" /\ ReloadInternal.err # "None" /\ Reload) =>
            /\ player' = player
            /\ game_constants' = game_constants
            /\ basic_enemy_stats' = basic_enemy_stats
            /\ chaser_enemy_stats' = chaser_enemy_stats
            /\ enemies' = enemies
            /\ visual_config' = visual_config
            /\ next_state' = "ScriptError"
            /\ error_message' # "None"]_vars

\* C4: in a Playing frame with no enemy left, a failing get_wave_config puts the
\* game in ScriptError with the error message set and the wave counter as it was,
\* and the frame goes on to its time step (nothing aborts).
C4_WaveFailureGoesToScriptError ==
    [][(pc = "process" /\ state = "Playing" /\ enemies = <<>>
            /\ ~get_wave_config(script, wave).ok) =>
            /\ state' = "ScriptError"
            /\ error_message' = get_wave_config(script, wave).err
            /\ error_message' # "None"
            /\ wave' = wave
            /\ enemies' = <<>>
            /\ pc' = "time"]_vars

\* C4 witness: the frame of a Playing game right after the wave configuration failed
C4_Witness ==
    /\ pc = "time"
    /\ state = "ScriptError"
    /\ error_message # "None"
    /\ enemies = <<>>
    /\ Len(player.weapons) > 0

\* C5: the player owns at most 3 weapons, of pairwise different types.
C5_WeaponsBounded ==
    /\ Len(player.weapons) <= 3
    /\ \A i, j \in 1..Len(player.weapons) :
            player.weapons[i].weapon_type = player.weapons[j].weapon_type => i = j

\* C5 witness: after a level-up the player has chosen again: a second weapon is
\* owned, or the one owned was upgraded
C5_Witness ==
    /\ player.level >= 1
    /\ state = "Playing"
    /\ \/ Len(player.weapons) = 2
       \/ \E i \in 1..Len(player.weapons) : player.weapons[i].level = 2

\* C6: no id is handed out twice since the program started, restarts included.
C6_IdsNeverReused ==
    [][(session_ids' \ session_ids) \cap issued = {}]_vars

\* C7: outside the steps of a tick that run from the marking to the despawn, that
\* is at the end of every tick, both despawn sets are empty.
C7_DespawnSetsEmptyAfterTick ==
    pc \notin {"collide", "bounds", "despawn"} =>
        /\ enemies_to_despawn = {}
        /\ projectiles_to_despawn = {}

\* C7 witness: the ticks of a frame are over, an enemy was marked in one of them
C7_Witness ==
    /\ pc = "apply"
    /\ player_hit # {}
    /\ enemies_to_despawn = {}
    /\ projectiles_to_despawn = {}

\* C8: the despawn step of a tick raises the XP by the number of enemies it
\* removes, each enemy of the despawn set counted once.
C8_XpIsEnemiesRemoved ==
    [][pc = "despawn" =>
            /\ player'.xp = player.xp + (Len(enemies) - Len(enemies'))
            /\ player'.xp = player.xp + Cardinality(enemies_to_despawn)]_vars

\* C8 witness: the ticks are over and the XP counts a batch of several enemies,
\* which also overlapped the player
C8_Witness ==
    /\ pc = "apply"
    /\ player.xp >= 5
    /\ Cardinality(player_hit) >= 2
    /\ enemies = <<>>

\* C9: a despawn batch raises the level by exactly 1 iff the new XP is at least
\* xp_for_level(level + 1), and leaves it otherwise; a level-up requests
\* WeaponSelection, no level-up requests nothing.
C9_OneLevelPerBatch ==
    [][player' # player =>
            /\ player'.xp > player.xp
            /\ player'.level =
                    IF player'.xp >= xp_for_level(player.level + 1)
                    THEN player.level + 1 ELSE player.level
            /\ player'.level # player.level => next_state' = "WeaponSelection"
            /\ player'.level = player.level => next_state' = next_state]_vars

\* C9 witness: a batch has crossed two thresholds and raised the level by one:
\* the XP is already at the next threshold
C9_Witness ==
    /\ next_state = "WeaponSelection"
    /\ player.level = 1
    /\ player.xp >= xp_for_level(2)

\* C10: xp_for_level(L) = 5 * L * (L + 1) / 2 for the levels up to the next one.
C10_XpForLevelClosedForm ==
    \A L \in 0..(player.level + 1) : xp_for_level(L) = (5 * L * (L + 1)) \div 2

\* C10 witness: the player is at level 4, the thresholds 0 .. 75 were computed
C10_Witness ==
    /\ player.level = 4
    /\ player.xp >= xp_for_level(4)
    /\ xp_for_next_level(player) = 75


----------------------------------------------------------------------------
(* weapon_selection::process over any sequence of visits of the menu: the   *)
(* play between two visits is left out, the menu is entered again at once.  *)

\* the menu is open again (after a level-up) and its frame reaches process
EnterSelection ==
    /\ pc \in {"frame", "apply"}
    /\ state = "WeaponSelection"
    /\ pc' = "process"
    /\ next_state' = "None"
    /\ UNCHANGED <<state, player, enemies, projectiles, enemies_to_despawn,
                   projectiles_to_despawn, next_entity_id, wave, error_message, paused,
                   visual_config, game_constants, basic_enemy_stats, chaser_enemy_stats,
                   t_passed, n_logic_updates, t_elapsed, ticks_left, held, script,
                   issued, session_ids, player_hit, frame0, call>>

InitSelect == Init /\ script = Script([ver |-> 1, fault |-> "none"], 0)

NextSelect ==
    \/ EnterSelection
    \/ WeaponSelectionProcess

SpecSelect == InitSelect /\ [][NextSelect]_vars

\* C11: the XP and the level of the player rise only in the despawn step of a
\* tick of a Playing frame that is not paused; no other step raises either.
C11_XpRisesOnlyInDespawn ==
    [][(player'.xp > player.xp \/ player'.level > player.level) =>
            /\ pc = "despawn"
            /\ state = "Playing"
            /\ ~paused]_vars

\* C11 witness: XP and a level were earned in a despawn step, and the frame of
\* WeaponSelection that followed upgraded a weapon without raising either
C11_Witness ==
    /\ player.xp >= 5
    /\ player.level = 1
    /\ state = "WeaponSelection"
    /\ pc = "apply"
    /\ \E i \in 1..Len(player.weapons) : player.weapons[i].level = 2

\* what a select key for weapon_type does to the player and the request
SelectEffect(weapon_type) ==
    LET ws == player.weapons
        owned == {i \in 1..Len(ws) : ws[i].weapon_type = weapon_type}
    IN  /\ IF owned # {}
           THEN /\ Len(player'.weapons) = Len(ws)
                /\ \A i \in 1..Len(ws) :
                        IF i \in owned
                        THEN /\ player'.weapons[i].level = ws[i].level + 1
                             /\ player'.weapons[i].weapon_type = weapon_type
                        ELSE player'.weapons[i] = ws[i]
           ELSE /\ Len(ws) < 3
                /\ Len(player'.weapons) = Len(ws) + 1
                /\ \A i \in 1..Len(ws) : player'.weapons[i] = ws[i]
                /\ player'.weapons[Len(ws) + 1].weapon_type = weapon_type
                /\ player'.weapons[Len(ws) + 1].level = 1
        /\ next_state' = "Playing"
        /\ [player' EXCEPT !.weapons = ws] = player

\* C12: a frame of WeaponSelection either changes nothing (no select key) or, for
\* one weapon type T, upgrades the owned T by one level or adds a level-1 T when
\* fewer than 3 weapons are owned, and requests Playing.
C12_SelectKeyEffect ==
    [][(pc = "process" /\ state = "WeaponSelection") =>
            \/ UNCHANGED <<player, next_state>>
            \/ \E weapon_type \in WeaponType : SelectEffect(weapon_type)]_vars

\* C12 witness: three weapons are owned, one of them upgraded, Playing requested
C12_Witness ==
    /\ pc = "apply"
    /\ next_state = "Playing"
    /\ Len(player.weapons) = 3
    /\ \E i \in 1..3 : player.weapons[i].level = 2


\* C13: a call of update_time_for_logic moves the whole tick durations of the
\* accumulated time (accumulator plus time since t_prev) into the ticks it
\* returns, however many: DT * ticks + new accumulator = old accumulator + elapsed
\* time, with 0 <= accumulator < DT, n_logic_updates = 0 and t_prev = now after it.
C13_TicksAreWholeDurations ==
    [][pc = "time" =>
            /\ DT * frame0'.num_updates + t_passed' = t_passed + t_elapsed
            /\ ticks_left' = frame0'.num_updates
            /\ 0 <= t_passed'
            /\ t_passed' < DT
            /\ n_logic_updates' = 0
            /\ t_elapsed' = 0]_vars

\* C13 witness: one call has returned two ticks
C13_Witness ==
    /\ pc = "tick"
    /\ frame0.num_updates = 2
    /\ ticks_left = 2
    /\ t_elapsed = 0

\* the entity of es with the id of e, if it is there, has the position and the
\* velocity of e
SamePosVel(e, es) ==
    \E i \in DOMAIN es :
        /\ es[i].id = e.id
        /\ es[i].pos = e.pos
        /\ es[i].vel = e.vel

\* C14: at the end of a Playing frame in which update_time_for_logic returned 0,
\* the player, every enemy and every projectile that existed at the start of the
\* frame have the position and the velocity they had at its start.
C14_ZeroTickFrameMovesNothing ==
    (pc \in {"apply", "frame"} /\ frame0.state = "Playing" /\ frame0.num_updates = 0) =>
        /\ player.pos = frame0.player.pos
        /\ player.vel = frame0.player.vel
        /\ \A i \in DOMAIN frame0.enemies : SamePosVel(frame0.enemies[i], enemies)
        /\ \A i \in DOMAIN frame0.projectiles :
                SamePosVel(frame0.projectiles[i], projectiles)

\* C14 witness: a Playing frame without a tick has ended with an enemy and a
\* projectile in flight
C14_Witness ==
    /\ pc = "frame"
    /\ frame0.state = "Playing"
    /\ frame0.num_updates = 0
    /\ frame0.enemies # <<>>
    /\ frame0.projectiles # <<>>
    /\ \E i \in DOMAIN enemies : enemies[i].vel # <<0, 0>>

\* the cooldown timers of the weapons of p
Cooldowns(p) == [i \in DOMAIN p.weapons |-> p.weapons[i].cooldown_remaining]

----------------------------------------------------------------------------
(* The ticks of one Playing frame (update_logic, then apply_next_state),     *)
(* started from the games a wave has just been spawned in: the player has    *)
(* one weapon, ready or just fired, and stands in the middle, on the border  *)
(* or in a corner of the arena, with 0 or 4 XP.                              *)

\* ticks that update_time_for_logic returned for the frame
MaxTicks == 4
\* where the player stands when the frame starts
TickPlayerPositions == {<<2, 2>>, <<0, 2>>, <<4, 4>>}
\* outcomes of get_spawn_position for the enemies of the wave
TickSpawnPositions == {<<0, 2>>, <<4, 2>>, <<2, 0>>}
\* the waves of the runs: at most 2 enemies
TickWaves ==
    {<<>>} \cup {<<e>> : e \in EnemyType \X TickSpawnPositions}
           \cup {<<e1, e2>> : e1 \in {"Basic"} \X TickSpawnPositions,
                              e2 \in EnemyType \X TickSpawnPositions}

RECURSIVE WeaponAtLevel(_, _)
\* a weapon of that type selected level times: added, then upgraded
WeaponAtLevel(weapon_type, level) ==
    IF level <= 1 THEN WeaponNew(weapon_type)
    ELSE level_up(WeaponAtLevel(weapon_type, level - 1))

InitTick ==
    /\ script = Script([ver |-> 1, fault |-> "none"], 0)
    /\ LET g == NewGameState(script)
       IN  /\ visual_config = g.visual_config
           /\ game_constants = g.game_constants
           /\ basic_enemy_stats = g.basic_enemy_stats
           /\ chaser_enemy_stats = g.chaser_enemy_stats
           /\ \E weapon_type \in WeaponType, pos \in TickPlayerPositions, xp \in {0, 4},
                 ready \in BOOLEAN, level \in 1..MaxWeaponLevel :
                LET w == WeaponAtLevel(weapon_type, level)
                    timer == IF ready THEN 0 ELSE w.stats.cooldown
                IN  player = [g.player EXCEPT !.pos = pos, !.xp = xp,
                                !.weapons = <<[w EXCEPT !.cooldown_remaining = timer]>>]
    /\ \E es \in TickWaves :
        /\ enemies = [k \in DOMAIN es |-> NewEnemy(k - 1, es[k][1], es[k][2])]
        /\ next_entity_id = Len(es)
    /\ issued = 0..(next_entity_id - 1)
    /\ session_ids = issued
    /\ projectiles = <<>>
    /\ state = "Playing"
    /\ next_state = "None"
    /\ wave = 1
    /\ error_message = "None"
    /\ paused = FALSE
    /\ t_passed = 0
    /\ t_elapsed = 0
    /\ n_logic_updates = 0
    /\ enemies_to_despawn = {}
    /\ projectiles_to_despawn = {}
    /\ ticks_left = MaxTicks
    /\ held \in Helds
    /\ pc = "tick"
    /\ player_hit = {}
    /\ frame0 = [FrameStart(state, player, enemies, projectiles)
                    EXCEPT !.num_updates = MaxTicks]
    /\ call = NoCall

NextTick ==
    \/ TickUpdate
    \/ TickMark
    \/ CheckCollisions
    \/ CheckPlayerBounds
    \/ ProcessDespawns
    \/ ApplyNextState

SpecTick == InitTick /\ [][NextTick]_vars


\* C16: when the player's position at the bounds check of the last tick of a
\* Playing frame is outside [0,w] x [0,h], the request that the apply step of
\* the frame finds is GameOver.
C16_PlayerOutOfBoundsEndsGame ==
    (/\ pc = "apply"
     /\ frame0.state = "Playing"
     /\ frame0.num_updates > 0
     /\ ~paused
     /\ \/ player.pos[1] < 0
        \/ player.pos[1] > ScreenW
        \/ player.pos[2] < 0
        \/ player.pos[2] > ScreenH)
    => next_state = "GameOver"


\* pos is outside the arena extended by margin on every side
OutsideExtended(pos, margin) ==
    \/ pos[1] < -margin
    \/ pos[1] > ScreenW + margin
    \/ pos[2] < -margin
    \/ pos[2] > ScreenH + margin

\* C17: in the marking step of a tick a Pulse is marked only by expiry, whatever
\* its position; an EnergyBall or HomingMissile outside the arena extended by the
\* margin is marked, and one that is inside or on the extended border is marked
\* only by expiry.
C17_OutOfBoundsPassSparesPulse ==
    [][pc = "mark" =>
        \A i \in DOMAIN projectiles :
            LET p == projectiles[i]
                outside == OutsideExtended(p.pos, game_constants.out_of_bounds_margin)
                newly == p.id \in projectiles_to_despawn' /\ p.id \notin projectiles_to_despawn
            IN  /\ (p.projectile_type = "Pulse" /\ p.time_remaining > 0) => ~newly
                /\ (p.projectile_type # "Pulse" /\ outside) => p.id \in projectiles_to_despawn'
                /\ (p.projectile_type # "Pulse" /\ ~outside /\ p.time_remaining > 0) => ~newly]_vars

\* C17 witness: after a marking step a live Pulse outside the extended arena is
\* not marked
C17_Witness ==
    /\ pc = "collide"
    /\ \E i \in DOMAIN projectiles :
        /\ projectiles[i].projectile_type = "Pulse"
        /\ projectiles[i].time_remaining > 0
        /\ OutsideExtended(projectiles[i].pos, game_constants.out_of_bounds_margin)
        /\ projectiles[i].id \notin projectiles_to_despawn


\* the collider of projectile p overlaps the collider of enemy e
Overlaps(p, e) ==
    check_collision(IF p.projectile_type = "Pulse"
                    THEN Rect(p.stats.width, p.stats.height)
                    ELSE Circle(p.stats.radius),
                    p.pos, Circle(e.stats.radius), e.pos).collided

\* C18: in the collision pass of a tick every enemy that overlaps a projectile is
\* marked, every EnergyBall or HomingMissile that overlaps an enemy is marked, and
\* no Pulse is marked that was not marked before the pass.
C18_CollisionPassMarks ==
    [][pc = "collide" =>
        /\ \A i \in DOMAIN projectiles, j \in DOMAIN enemies :
                Overlaps(projectiles[i], enemies[j]) =>
                    /\ enemies[j].id \in enemies_to_despawn'
                    /\ projectiles[i].projectile_type # "Pulse" =>
                            projectiles[i].id \in projectiles_to_despawn'
        /\ \A i \in DOMAIN projectiles :
                (projectiles[i].projectile_type = "Pulse"
                    /\ projectiles[i].id \in projectiles_to_despawn')
                => projectiles[i].id \in projectiles_to_despawn]_vars

\* C18 witness: a Pulse in the second tick of its life hits an enemy, after an
\* enemy was removed in the tick before; no enemy has touched the player
C18_Witness ==
    /\ pc = "bounds"
    /\ player_hit = {}
    /\ Len(enemies) < Len(frame0.enemies)
    /\ \E i \in DOMAIN projectiles, j \in DOMAIN enemies :
        /\ projectiles[i].projectile_type = "Pulse"
        /\ projectiles[i].time_remaining < projectiles[i].stats.time_to_live - DT
        /\ Overlaps(projectiles[i], enemies[j])
        /\ enemies[j].id \in enemies_to_despawn


\* the projectiles of ps with an id from id on that a weapon of weapon_type fires
FiredBy(ps, weapon_type, id) ==
    {k \in DOMAIN ps : ps[k].id >= id /\ ps[k].projectile_type = weapon_type}

\* C19: in a tick, a weapon whose timer is still positive after update(dt) fires
\* nothing and is otherwise unchanged; a weapon whose timer is <= 0 fires at
\* least one projectile and its timer becomes its cooldown, which is positive (a
\* second call of fire() at once returns nothing).  Two projectiles of one
\* weapon are of the same volley or their ages differ by the cooldown at least.
C19_FireObeysCooldown ==
    [][pc = "tick" =>
        /\ \A i \in DOMAIN player.weapons :
            LET w == player.weapons[i]
                timer == IF w.cooldown_remaining > 0 THEN w.cooldown_remaining - DT
                         ELSE w.cooldown_remaining
                fired == FiredBy(projectiles', w.weapon_type, next_entity_id)
            IN  IF timer > 0
                THEN /\ fired = {}
                     /\ player'.weapons[i] = [w EXCEPT !.cooldown_remaining = timer]
                ELSE /\ fired # {}
                     /\ player'.weapons[i] = [w EXCEPT !.cooldown_remaining = w.stats.cooldown]
                     /\ w.stats.cooldown > 0
        /\ \A i \in DOMAIN player'.weapons : \A k, l \in DOMAIN projectiles' :
            (/\ projectiles'[k].projectile_type = player'.weapons[i].weapon_type
             /\ projectiles'[l].projectile_type = player'.weapons[i].weapon_type
             /\ projectiles'[k].time_remaining > projectiles'[l].time_remaining)
            => projectiles'[k].time_remaining - projectiles'[l].time_remaining
                    >= player'.weapons[i].stats.cooldown]_vars

\* C19 witness: a weapon has fired a second time while a projectile of its first
\* firing is still there
C19_Witness ==
    /\ pc = "mark"
    /\ \E k, l \in DOMAIN projectiles :
        /\ projectiles[k].projectile_type = projectiles[l].projectile_type
        /\ projectiles[k].time_remaining > projectiles[l].time_remaining
    /\ \E i \in DOMAIN player.weapons :
            player.weapons[i].cooldown_remaining = player.weapons[i].stats.cooldown


----------------------------------------------------------------------------
(* circle_circle on the player and one enemy, as the collision pass calls    *)
(* it: radii and positions are drawn from small sets.                        *)

\* largest radius of the runs
MaxRadius == 3
\* coordinates of the enemy; the player is at the origin
MaxCoord == 6

InitCircle ==
    /\ script = Script([ver |-> 1, fault |-> "none"], 0)
    /\ LET g == NewGameState(script)
       IN  /\ visual_config = g.visual_config
           /\ game_constants = g.game_constants
           /\ \E r1, r2 \in 1..MaxRadius :
                /\ player = [g.player EXCEPT !.pos = <<0, 0>>, !.stats.radius = r1]
                /\ basic_enemy_stats = [g.basic_enemy_stats EXCEPT !.radius = r2]
           /\ chaser_enemy_stats = g.chaser_enemy_stats
    /\ \E x, y \in 0..MaxCoord : enemies = <<NewEnemy(0, "Basic", <<x, y>>)>>
    /\ next_entity_id = 1
    /\ issued = {0}
    /\ session_ids = {0}
    /\ projectiles = <<>>
    /\ state = "Playing"
    /\ next_state = "None"
    /\ wave = 1
    /\ error_message = "None"
    /\ paused = FALSE
    /\ t_passed = 0
    /\ t_elapsed = 0
    /\ n_logic_updates = 0
    /\ enemies_to_despawn = {}
    /\ projectiles_to_despawn = {}
    /\ ticks_left = 1
    /\ held = NoHeld
    /\ pc = "collide"
    /\ player_hit = {}
    /\ frame0 = [FrameStart(state, player, enemies, projectiles) EXCEPT !.num_updates = 1]
    /\ call = NoCall

NextCircle == CheckCollisions

SpecCircle == InitCircle /\ [][NextCircle]_vars

\* C20: for the player's circle and an enemy's, collided is true iff the squared
\* distance of the centres is less than (r1 + r2)^2; then the penetration is
\* r1 + r2 - distance (in hundredths, the distance rounded down); otherwise
\* collided is false and the penetration 0.  The collision pass records the
\* enemy as hitting the player in exactly the first case.
C20_CircleCircle ==
    \A j \in DOMAIN enemies :
        LET r1 == player.stats.radius
            r2 == enemies[j].stats.radius
            dx == player.pos[1] - enemies[j].pos[1]
            dy == player.pos[2] - enemies[j].pos[2]
            c == circle_circle(player.pos, r1, enemies[j].pos, r2)
            distance == 100 * (r1 + r2) - c.penetration_depth
        IN  /\ c.collided <=> dx * dx + dy * dy < (r1 + r2) * (r1 + r2)
            /\ c.collided =>
                /\ distance >= 0
                /\ distance * distance <= 10000 * (dx * dx + dy * dy)
                /\ (distance + 1) * (distance + 1) > 10000 * (dx * dx + dy * dy)
            /\ ~c.collided => c.penetration_depth = 0
            /\ pc = "bounds" =>
                (enemies[j].id \in player_hit <=> dx * dx + dy * dy < (r1 + r2) * (r1 + r2))

\* C20 witness: the case of the test in collision.rs, radii 3 and 3 at distance
\* 5, has gone through the collision pass: a hit with penetration 1
C20_Witness ==
    /\ pc = "bounds"
    /\ player.stats.radius = 3
    /\ \E j \in DOMAIN enemies :
        /\ enemies[j].stats.radius = 3
        /\ enemies[j].pos = <<3, 4>>
        /\ enemies[j].id \in player_hit
        /\ circle_circle(player.pos, 3, enemies[j].pos, 3).penetration_depth = 100


----------------------------------------------------------------------------
(* Functions that are checked on their own: the arguments are drawn from    *)
(* small sets, the function is applied, and call holds the arguments and    *)
(* the result.  The game is as constructed and is left alone.               *)

InitCall == Init /\ script = Script([ver |-> 1, fault |-> "none"], 0)

GameUnchanged ==
    UNCHANGED <<state, next_state, player, enemies, projectiles, enemies_to_despawn,
                projectiles_to_despawn, next_entity_id, wave, error_message, paused,
                visual_config, game_constants, basic_enemy_stats, chaser_enemy_stats,
                t_passed, n_logic_updates, t_elapsed, ticks_left, held, script, pc,
                issued, session_ids, player_hit, frame0>>

\* the colliders of the runs: circles, and boxes with odd and even extents
Colliders ==
    {Circle(r) : r \in 1..MaxRadius}
    \cup {Rect(w, h) : w, h \in {1, 4, 2 * MaxRadius}}

\* the first shape is at the origin, the second anywhere on the grid around it
CallCheckCollision ==
    \E collider1, collider2 \in Colliders, x, y \in (-MaxCoord)..MaxCoord :
        /\ call = NoCall
        /\ call' = [fn |-> "check_collision",
                    collider1 |-> collider1, pos1 |-> <<0, 0>>,
                    collider2 |-> collider2, pos2 |-> <<x, y>>,
                    result |-> check_collision(collider1, <<0, 0>>, collider2, <<x, y>>)]
        /\ GameUnchanged

NextCollision == CallCheckCollision

SpecCollision == InitCall /\ [][NextCollision]_vars

\* C21: check_collision with the two shapes swapped returns the same collided
\* flag, the same penetration and the negated normal, for every pair of shapes
\* and positions.
C21_SwapNegatesNormal ==
    call.fn = "check_collision" =>
        LET swapped == check_collision(call.collider2, call.pos2, call.collider1, call.pos1)
        IN  /\ swapped.collided = call.result.collided
            /\ swapped.penetration_depth = call.result.penetration_depth
            /\ swapped.normal = VNeg(call.result.normal)


BothKinds(kind1, kind2) ==
    /\ call.fn = "check_collision"
    /\ call.collider1.kind = kind1
    /\ call.collider2.kind = kind2

\* centre of the first shape minus centre of the second
CentreDelta == VSub(call.pos1, call.pos2)

\* twice the overlap of two boxes on each axis (the half extents stay integers)
Overlap2X == (call.collider1.width + call.collider2.width) - 2 * Abs(CentreDelta[1])
Overlap2Y == (call.collider1.height + call.collider2.height) - 2 * Abs(CentreDelta[2])

\* n is on the axis with index axis, has length 1 (100 hundredths) and does not
\* point against the centre delta on that axis
AxisNormal(n, axis) ==
    /\ n[3 - axis] = 0
    /\ n[axis] \in {-100, 100}
    /\ n[axis] * CentreDelta[axis] >= 0

\* C22: two boxes collide iff the overlap on both axes is strictly positive; the
\* penetration is the smaller overlap and the normal lies on that axis with the
\* sign of the centre delta; with equal overlaps the X axis is chosen.
C22_RectRect ==
    BothKinds("Rect", "Rect") =>
        /\ call.result.collided <=> (Overlap2X > 0 /\ Overlap2Y > 0)
        /\ call.result.collided =>
            /\ call.result.penetration_depth = 50 * Min2(Overlap2X, Overlap2Y)
            /\ AxisNormal(call.result.normal, IF Overlap2X <= Overlap2Y THEN 1 ELSE 2)

\* a vector of hundredths whose length is 1 up to the rounding of its components
IsUnit100(n) == Abs(Dot(n, n) - 10000) <= 200

NormalAxis(n) == IF n[1] # 0 THEN 1 ELSE 2

\* a collision in which no direction separates the centres along the normal:
\* two circles with one centre, or two boxes whose centres agree on the axis
\* of the normal
NoSeparatingDirection ==
    /\ call.result.collided
    /\ \/ BothKinds("Circle", "Circle") /\ CentreDelta = <<0, 0>>
       \/ BothKinds("Rect", "Rect") /\ CentreDelta[NormalAxis(call.result.normal)] = 0

\* C21 (amended): with the two shapes swapped the collided flag and the
\* penetration are the same; the normal is negated, except that it is the
\* same in both orders for two circles with one centre and for two boxes
\* whose centres agree on the axis of the normal.
C21_SwapAmended ==
    call.fn = "check_collision" =>
        LET swapped == check_collision(call.collider2, call.pos2, call.collider1, call.pos1)
        IN  /\ swapped.collided = call.result.collided
            /\ swapped.penetration_depth = call.result.penetration_depth
            /\ swapped.normal = IF NoSeparatingDirection THEN call.result.normal
                                ELSE VNeg(call.result.normal)

\* a box against a circle that collide: the flipped case, with a normal to negate
C21_Witness ==
    /\ BothKinds("Rect", "Circle")
    /\ call.result.collided
    /\ call.result.normal[1] # 0
    /\ call.result.normal[2] # 0

\* C22 (amended): as C22, but with equal overlaps the Y axis is chosen.
C22_RectRectTieY ==
    BothKinds("Rect", "Rect") =>
        /\ call.result.collided <=> (Overlap2X > 0 /\ Overlap2Y > 0)
        /\ call.result.collided =>
            /\ call.result.penetration_depth = 50 * Min2(Overlap2X, Overlap2Y)
            /\ AxisNormal(call.result.normal, IF Overlap2X < Overlap2Y THEN 1 ELSE 2)

\* two boxes that collide with equal overlaps, their centres apart on both axes
C22_Witness ==
    /\ BothKinds("Rect", "Rect")
    /\ call.result.collided
    /\ Overlap2X = Overlap2Y
    /\ CentreDelta[1] # 0
    /\ CentreDelta[2] # 0

----------------------------------------------------------------------------
(* update_homing on its own: a projectile at the origin, of every type, with *)
(* the turning rate 0 or the missile's own, flying in one of the eight       *)
(* compass directions, and no, one or two enemies around it.                 *)

MaxTarget == 2

CompassDirections == {d \in {-1, 0, 1} \X {-1, 0, 1} : d # <<0, 0>>}
TargetPositions == (-MaxTarget..MaxTarget) \X (-MaxTarget..MaxTarget)
SecondTargets == {<<0, 0>>, <<1, 0>>, <<-MaxTarget, MaxTarget>>}

CallProjectile(projectile_type, direction, turning_rate) ==
    LET p == NewProjectile(1, [projectile_type |-> projectile_type, pos |-> <<0, 0>>,
                               vel |-> direction])
    IN  [p EXCEPT !.stats.turning_rate = turning_rate]

CallEnemies ==
    {<<>>}
    \cup {<<NewEnemy(2, "Basic", t)>> : t \in TargetPositions}
    \cup {<<NewEnemy(2, "Basic", t), NewEnemy(3, "Chaser", u)>> :
            t \in TargetPositions, u \in SecondTargets}

CallUpdateHoming ==
    \E projectile_type \in {"EnergyBall", "Pulse", "HomingMissile"},
       direction \in CompassDirections,
       turning_rate \in {0, ProjectileStatsFrom("HomingMissile").turning_rate},
       es \in CallEnemies :
        LET p == CallProjectile(projectile_type, direction, turning_rate)
        IN  /\ call = NoCall
            /\ call' = [fn |-> "update_homing", p |-> p, dt |-> DT, es |-> es,
                        result |-> update_homing(p, DT, es)]
            /\ GameUnchanged

NextHoming == CallUpdateHoming

SpecHoming == InitCall /\ [][NextHoming]_vars

\* b is a velocity with the direction of a
SameHeading(a, b) ==
    /\ b # NaNVec
    /\ a[1] * b[2] - a[2] * b[1] = 0
    /\ Dot(a, b) > 0

\* C24: update_homing never changes the heading of a homing missile whose
\* turning rate is 0, whatever the target position, and it leaves the velocity
\* unchanged when there is no enemy or the projectile is not a homing missile.
C24_ZeroTurningRateKeepsHeading ==
    call.fn = "update_homing" =>
        /\ (call.p.projectile_type = "HomingMissile" /\ call.p.stats.turning_rate = 0)
                => SameHeading(call.p.vel, call.result.vel)
        /\ (call.p.projectile_type # "HomingMissile" \/ call.es = <<>>)
                => call.result.vel = call.p.vel


----------------------------------------------------------------------------
(* The end screens on their own: the game stands in GameOver or in Won, with  *)
(* a player that owns a weapon and has XP, a wave on the field, possibly a    *)
(* projectile, paused or not, and the handler of the phase runs once.         *)

InitRestart ==
    /\ script \in {Script([ver |-> 1, fault |-> "none"], 0), Script([ver |-> 2, fault |-> "all"], 0)}
    /\ LET g == NewGameState(script)
       IN  /\ visual_config = g.visual_config
           /\ game_constants = g.game_constants
           /\ basic_enemy_stats = g.basic_enemy_stats
           /\ chaser_enemy_stats = g.chaser_enemy_stats
           /\ \E weapon_type \in WeaponType, level \in 1..MaxWeaponLevel :
                player = [g.player EXCEPT !.xp = xp_for_level(level) + 1, !.level = level,
                            !.weapons = <<WeaponAtLevel(weapon_type, level)>>]
    /\ \E es \in TickWaves :
        /\ enemies = [k \in DOMAIN es |-> NewEnemy(k - 1, es[k][1], es[k][2])]
        /\ \E fired \in BOOLEAN :
            /\ projectiles = IF fired
                             THEN <<NewProjectile(Len(es),
                                        [projectile_type |-> player.weapons[1].weapon_type,
                                         pos |-> player.pos, vel |-> <<1, 0>>])>>
                             ELSE <<>>
            /\ next_entity_id = Len(es) + Len(projectiles)
    /\ issued = 0..(next_entity_id - 1)
    /\ session_ids = issued
    /\ state \in {"GameOver", "Won"}
    /\ next_state = "None"
    /\ wave = 1
    /\ error_message = "None"
    /\ paused \in BOOLEAN
    /\ t_passed = 0
    /\ t_elapsed = 0
    /\ n_logic_updates = 1
    /\ enemies_to_despawn = {}
    /\ projectiles_to_despawn = {}
    /\ ticks_left = 0
    /\ held = NoHeld
    /\ pc = "process"
    /\ player_hit = {}
    /\ frame0 = FrameStart(state, player, enemies, projectiles)
    /\ call = NoCall

NextRestart ==
    \/ GameOverProcess
    \/ WonProcess

SpecRestart == InitRestart /\ [][NextRestart]_vars

\* the game is as GameState::new() leaves it
FreshGame ==
    /\ state = "WeaponSelection"
    /\ wave = 0
    /\ enemies = <<>>
    /\ projectiles = <<>>
    /\ next_state = "None"
    /\ ~paused
    /\ error_message = "None"
    /\ player.xp = 0
    /\ player.level = 0
    /\ player.weapons = <<>>

C26_ScriptErrorIsTerminal ==
    [][state = "ScriptError" =>
            /\ pc' \notin {"mark", "collide", "bounds", "despawn"}
            /\ \/ state' = "ScriptError"
               \/ state' = "Playing" /\ error_message' = "None"
               \/ FreshGame']_vars


\* the game as it is right after construction: WeaponSelection, no weapons, no
\* request, no error message, and the hard-coded default wherever the script
\* fails to give the value
Constructed ==
    /\ state = "WeaponSelection"
    /\ player.weapons = <<>>
    /\ next_state = "None"
    /\ error_message = "None"
    /\ ~get_player_stats(script).ok => player.stats = EntityStats(1, 1, 100, 90)
    /\ ~get_enemy_stats(script, "Basic").ok => basic_enemy_stats = EntityStats(1, 1, 50, 95)
    /\ ~get_enemy_stats(script, "Chaser").ok => chaser_enemy_stats = EntityStats(1, 1, 80, 95)
    /\ ~get_game_constants(script).ok => game_constants = GameConstants(1, 2)
    /\ ~get_visual_config(script).ok =>
            (visual_config = "default" /\ player.visual_config = "default")

\* C27: a newly constructed GameState - at the start of the program and after
\* every restart - is in WeaponSelection with no weapons, no request and no
\* error message, with the hard-coded defaults for the values the script does
\* not give; it is never in ScriptError.
C27_NewGameStateUsesDefaults ==
    /\ Constructed
    /\ [][(pc = "process" /\ state \in {"GameOver", "ScriptError"} /\ state' # state)
                => Constructed']_vars

\* the game was restarted from ScriptError while waves.roto does not compile
C27_Witness ==
    /\ pc = "apply"
    /\ frame0.state = "ScriptError"
    /\ state = "WeaponSelection"
    /\ script.fault = "all"
    /\ player.stats = EntityStats(1, 1, 100, 90)


\* the entities of es2 are those of es1, in the same order, where they were and
\* as fast as they were
SameEntitiesInPlace(es1, es2) ==
    /\ Len(es2) = Len(es1)
    /\ \A i \in DOMAIN es1 :
        /\ es2[i].id = es1[i].id
        /\ es2[i].pos = es1[i].pos
        /\ es2[i].vel = es1[i].vel

\* C28: a reload, successful or not, changes no position and no velocity of the
\* player, an enemy or a projectile, and not which entities there are; after a
\* successful one the player has the newly loaded stats, every enemy the newly
\* loaded stats of its type, the error message is cleared and Playing is
\* requested.
C28_ReloadKeepsEntitiesInPlace ==
    [][(pc = "input" /\ Reload) =>
            /\ player'.pos = player.pos
            /\ player'.vel = player.vel
            /\ SameEntitiesInPlace(enemies, enemies')
            /\ SameEntitiesInPlace(projectiles, projectiles')
            /\ ReloadInternal.err = "None" =>
                /\ player'.stats = get_player_stats(script).val
                /\ \A i \in DOMAIN enemies' :
                    enemies'[i].stats = get_enemy_stats(script, enemies'[i].enemy_type).val
                /\ error_message' = "None"
                /\ next_state' = "Playing"]_vars

\* a reload of an edited waves.roto succeeded in this frame with enemies on the
\* field: the player and the enemies have other stats than at the frame start
C28_Witness ==
    /\ pc = "process"
    /\ script.rev > 0
    /\ next_state = "Playing"
    /\ error_message = "None"
    /\ enemies # <<>>
    /\ player.stats # frame0.player.stats
    /\ player.stats = get_player_stats(script).val
    /\ enemies[1].stats # frame0.enemies[1].stats
    /\ SameEntitiesInPlace(frame0.enemies, enemies)


\* the ids of a collection, in its order
IdSeq(es) == [i \in DOMAIN es |-> es[i].id]

\* es2 is es1 without the entities whose id is in marked, in the same order
Compacted(es1, marked, es2) ==
    LET Kept(id) == id \notin marked
    IN  /\ IdSeq(es2) = SelectSeq(IdSeq(es1), Kept)
        /\ \A i \in DOMAIN es2 : \E j \in DOMAIN es1 : es1[j] = es2[i]

\* every entity of es1 is still in es2
NoneRemoved(es1, es2) ==
    \A i \in DOMAIN es1 : \E j \in DOMAIN es2 : es2[j].id = es1[i].id

\* C29: process_despawns removes exactly the marked entities - the enemies
\* afterwards are the previous ones without those whose id is in
\* enemies_to_despawn, in the same order, and likewise the projectiles - and no
\* other step of a tick (update, marking, collision pass, bounds check) removes
\* an entity from either collection.
C29_RemovalOnlyInProcessDespawns ==
    [][/\ pc = "despawn" =>
            /\ Compacted(enemies, enemies_to_despawn, enemies')
            /\ Compacted(projectiles, projectiles_to_despawn, projectiles')
       /\ pc \in {"tick", "mark", "collide", "bounds"} =>
            /\ NoneRemoved(enemies, enemies')
            /\ NoneRemoved(projectiles, projectiles')]_vars

\* a later tick of the frame is due, and the ticks so far removed the first of
\* two enemies and a projectile while the second enemy stayed
C29_Witness ==
    /\ pc = "tick"
    /\ ticks_left < MaxTicks
    /\ Len(frame0.enemies) = 2
    /\ Len(enemies) = 1
    /\ enemies[1].id = frame0.enemies[2].id
    /\ next_entity_id > Len(frame0.enemies) + Len(projectiles)


C31_EnteringPlayingResetsClock ==
    [][/\ (pc = "apply" /\ next_state = "Playing") =>
            /\ t_elapsed' = 0
            /\ t_passed' = t_passed
       /\ (pc = "frame" /\ state = "Playing") =>
            /\ t_elapsed = 0
            /\ t_passed < DT
       /\ (pc = "time" /\ frame0.state = "Playing") =>
            /\ t_elapsed <= MaxDelta
            /\ frame0'.num_updates = (t_passed + t_elapsed) \div DT]_vars

\* Playing was entered from a WeaponSelection frame (in which time passed) and
\* its first frame, one time unit long, has run no tick
C31_Witness ==
    /\ pc = "apply"
    /\ state = "Playing"
    /\ frame0.state = "Playing"
    /\ frame0.num_updates = 0
    /\ wave = 1
    /\ t_passed = 1


\* the number of enemies of that type in es
CountType(es, enemy_type) ==
    Cardinality({i \in DOMAIN es : es[i].enemy_type = enemy_type})

\* the step is the confirm key of an end screen: the game is replaced
RestartStep ==
    /\ pc = "process"
    /\ state \in {"GameOver", "ScriptError"}
    /\ state' = "WeaponSelection"

\* C32: enemies are added only by the wave spawn of a Playing frame that started
\* with no enemy, before the ticks of the frame: exactly basic_enemy_count Basic
\* and chaser_enemy_count Chaser enemies of the wave's composition, each with an
\* id not handed out before in the session, and the wave counter goes up by 1;
\* the wave counter changes in no other way within a session.
C32_WaveSpawnsOnEmptyArena ==
    [][/\ (Len(enemies') > Len(enemies) \/ (wave' # wave /\ ~RestartStep)) =>
            LET r == get_wave_config(script, wave)
            IN  /\ pc = "process"
                /\ state = "Playing"
                /\ pc' = "time"
                /\ enemies = <<>>
                /\ frame0.enemies = <<>>
                /\ r.ok
                /\ CountType(enemies', "Basic") = r.val.basic_enemy_count
                /\ CountType(enemies', "Chaser") = r.val.chaser_enemy_count
                /\ \A i \in DOMAIN enemies' :
                    /\ enemies'[i].id \notin session_ids
                    /\ \A j \in DOMAIN enemies' : enemies'[j].id = enemies'[i].id => j = i
                /\ wave' = wave + 1
       /\ (pc = "process" /\ state = "Playing" /\ enemies # <<>>) =>
            /\ enemies' = enemies
            /\ wave' = wave]_vars

\* the second wave of the session, one Chaser, was spawned in this frame after
\* the enemy of the first wave was removed
C32_Witness ==
    /\ pc = "time"
    /\ wave = 2
    /\ frame0.enemies = <<>>
    /\ Len(enemies) = 1
    /\ enemies[1].enemy_type = "Chaser"
    /\ enemies[1].id = next_entity_id - 1
    /\ enemies[1].id > 0


----------------------------------------------------------------------------
(* Projectile lifetime *)

ProjectileIds(ps) == {ps[i].id : i \in DOMAIN ps}

\* the states between two ticks: no tick is half done
BetweenTicks == pc \notin {"mark", "collide", "bounds", "despawn"}

----------------------------------------------------------------------------
(* The collision pass of one tick over two or three enemies that move in     *)
(* every direction, next to each other or apart; the player stands in the    *)
(* corner of the arena, out of their reach, and nothing has been fired.      *)

\* where the first enemy is
PairCentre == <<3, 3>>
\* where the second enemy is, relative to the first: on it, touching it along
\* an axis or a diagonal, or out of reach
PairOffsets == {<<x, y>> : x, y \in {-1, 0, 1}} \cup {<<2, 0>>, <<0, 2>>}
\* velocities an enemy can have: at rest, along an axis, along a diagonal
PairVelocities == {<<x, y>> : x, y \in {-1, 0, 1}}
\* the third enemy, when there is one: below the first, at rest or moving up
ThirdEnemies == {<<>>} \cup {<<v>> : v \in {<<0, 0>>, <<0, -1>>}}

InitEnemies ==
    /\ script = Script([ver |-> 1, fault |-> "none"], 0)
    /\ LET g == NewGameState(script)
       IN  /\ visual_config = g.visual_config
           /\ game_constants = g.game_constants
           /\ basic_enemy_stats = g.basic_enemy_stats
           /\ chaser_enemy_stats = g.chaser_enemy_stats
           /\ player = [g.player EXCEPT !.pos = <<0, 0>>,
                                        !.weapons = <<WeaponNew("EnergyBall")>>]
    /\ \E d \in PairOffsets, v1, v2 \in PairVelocities, third \in ThirdEnemies :
        enemies =
            <<[NewEnemy(0, "Basic", PairCentre) EXCEPT !.vel = v1],
              [NewEnemy(1, "Chaser", VAdd(PairCentre, d)) EXCEPT !.vel = v2]>>
            \o [k \in DOMAIN third |->
                    [NewEnemy(2, "Basic", VAdd(PairCentre, <<0, 1>>)) EXCEPT !.vel = third[k]]]
    /\ next_entity_id = Len(enemies)
    /\ issued = 0..(next_entity_id - 1)
    /\ session_ids = issued
    /\ projectiles = <<>>
    /\ state = "Playing"
    /\ next_state = "None"
    /\ wave = 1
    /\ error_message = "None"
    /\ paused = FALSE
    /\ t_passed = 0
    /\ t_elapsed = 0
    /\ n_logic_updates = 0
    /\ enemies_to_despawn = {}
    /\ projectiles_to_despawn = {}
    /\ ticks_left = 1
    /\ held = NoHeld
    /\ pc = "collide"
    /\ player_hit = {}
    /\ frame0 = [FrameStart(state, player, enemies, projectiles) EXCEPT !.num_updates = 1]
    /\ call = NoCall

NextEnemies == CheckCollisions

SpecEnemies == InitEnemies /\ [][NextEnemies]_vars

RECURSIVE VelocitySum(_)
\* sum of the velocities of the enemies
VelocitySum(es) ==
    IF es = <<>> THEN <<0, 0>> ELSE VAdd(Head(es).vel, VelocitySum(Tail(es)))

\* C34: the enemy-enemy pass changes nothing but velocities and keeps their
\* sum; it marks nothing for despawn; of two enemies that collide and approach
\* each other along the contact normal, the first gains and the second loses
\* the same velocity along the normal; two enemies that do not collide, or
\* that separate, keep their velocities.
C34_EnemyPassExchangesVelocity ==
    [][pc = "collide" =>
        /\ Len(enemies') = Len(enemies)
        /\ \A i \in DOMAIN enemies : enemies'[i] = [enemies[i] EXCEPT !.vel = enemies'[i].vel]
        /\ VelocitySum(enemies') = VelocitySum(enemies)
        /\ enemies_to_despawn' = enemies_to_despawn
        /\ Len(enemies) = 2 =>
            LET c == check_collision(EnemyCollider(enemies[1]), enemies[1].pos,
                                     EnemyCollider(enemies[2]), enemies[2].pos)
                vel_along_normal == Dot(VSub(enemies[1].vel, enemies[2].vel), c.normal)
                d1 == VSub(enemies'[1].vel, enemies[1].vel)
                d2 == VSub(enemies'[2].vel, enemies[2].vel)
            IN  IF c.collided /\ vel_along_normal < 0
                THEN /\ VAdd(d1, d2) = <<0, 0>>
                     /\ d1 # <<0, 0>>
                     /\ d1[1] * c.normal[2] = d1[2] * c.normal[1]
                     /\ Dot(d1, c.normal) > 0
                ELSE d1 = <<0, 0>> /\ d2 = <<0, 0>>]_vars

\* two enemies after a pass that has changed their velocities
C34_Witness ==
    /\ pc = "bounds"
    /\ Len(enemies) = 2
    /\ enemies[1].vel # frame0.enemies[1].vel
    /\ enemies[2].vel # frame0.enemies[2].vel
    /\ enemies[1].pos # enemies[2].pos
    /\ VelocitySum(enemies) = VelocitySum(frame0.enemies)


----------------------------------------------------------------------------
(* One weapon, of any type and level, on which update(dt) and fire() are     *)
(* called in any order with one dt.                                          *)

\* the dt of the calls: shorter than, equal to and longer than a tick, and
\* longer than a cooldown
WeaponDts == {1, DT, 3, 5}

CallWeaponNew ==
    \E weapon_type \in WeaponType, level \in 1..MaxWeaponLevel, dt \in WeaponDts :
        /\ call = NoCall
        /\ call' = [fn |-> "Weapon", op |-> "new", dt |-> dt, commands |-> <<>>,
                    weapon |-> WeaponAtLevel(weapon_type, level)]
        /\ GameUnchanged

CallWeaponUpdate ==
    /\ call.fn = "Weapon"
    /\ call' = [call EXCEPT !.op = "update", !.commands = <<>>,
                            !.weapon = WeaponUpdate(call.weapon, call.dt)]
    /\ GameUnchanged

CallWeaponFire ==
    /\ call.fn = "Weapon"
    /\ LET f == Fire(call.weapon, player.pos, player.facing)
       IN  call' = [call EXCEPT !.op = "fire", !.commands = f.commands, !.weapon = f.weapon]
    /\ GameUnchanged

NextCooldown ==
    \/ CallWeaponNew
    \/ CallWeaponUpdate
    \/ CallWeaponFire

SpecCooldown == InitCall /\ [][NextCooldown]_vars

\* C35: update(dt) takes dt from a timer that is > 0 and leaves a timer that
\* is <= 0 alone; fire() of a weapon whose timer is > 0 does nothing; so after
\* any sequence of update and fire calls with one dt the timer is above -dt
\* and not above the weapon's cooldown.
C35_CooldownTimerFloored ==
    [][call'.fn = "Weapon" =>
        /\ call'.weapon.cooldown_remaining > -call'.dt
        /\ call'.weapon.cooldown_remaining <= call'.weapon.stats.cooldown
        /\ call'.op = "update" =>
            call'.weapon.cooldown_remaining =
                IF call.weapon.cooldown_remaining > 0
                THEN call.weapon.cooldown_remaining - call.dt
                ELSE call.weapon.cooldown_remaining
        /\ (call'.op = "fire" /\ call.weapon.cooldown_remaining > 0) =>
            call'.weapon = call.weapon /\ call'.commands = <<>>]_vars

\* a timer that an update has taken below zero, and one that is left there
C35_Witness ==
    /\ call.fn = "Weapon"
    /\ call.op = "update"
    /\ call.weapon.cooldown_remaining < 0
    /\ call.weapon.cooldown_remaining = 1 - call.dt
    /\ call.weapon.level = MaxWeaponLevel


----------------------------------------------------------------------------
(* One fire() of a weapon of any type, with any projectile count and spread, *)
(* ready or cooling down, for a player anywhere and facing any way.          *)

\* projectile speed of the weapons fired here, so that the directions of a
\* fan are told apart
FireSpeed == 100
\* projectile counts and spread angles: those level_up gives a weapon, and
\* others whose angle offsets are whole degrees
FireShapes ==
    ({1, 2, 3} \X {0, 30, 75}) \cup ({4} \X {0, 30, 75}) \cup ({7} \X {0, 75})
FireFacings == {<<1, 0>>, <<0, 1>>, <<-1, 0>>, <<0, -1>>}
FirePositions == {<<2, 2>>, <<0, 4>>}

CallFire ==
    \E weapon_type \in WeaponType, shape \in FireShapes, ready \in BOOLEAN,
       player_pos \in FirePositions, player_facing \in FireFacings :
        LET w0 == WeaponNew(weapon_type)
            w == [w0 EXCEPT !.stats.projectile_count = shape[1],
                            !.stats.spread_angle = shape[2],
                            !.stats.projectile_stats.speed = FireSpeed,
                            !.cooldown_remaining = IF ready THEN 0 ELSE w0.stats.cooldown]
        IN  /\ call = NoCall
            /\ call' = [fn |-> "fire", weapon |-> w, player_pos |-> player_pos,
                        player_facing |-> player_facing,
                        result |-> Fire(w, player_pos, player_facing)]
            /\ GameUnchanged

NextFire == CallFire

SpecFire == InitCall /\ [][NextFire]_vars

Cross(a, b) == a[1] * b[2] - a[2] * b[1]

\* the angle offset of projectile i (from 0) of a fan of n over +- spread
AngleOffset(i, n, spread) == -spread + (i * 2 * spread) \div (n - 1)

\* C36: a weapon that can fire returns projectile_count spawn commands for
\* EnergyBall and HomingMissile, all at the player's position: one along the
\* facing direction when the count is 1, otherwise one at each angle offset
\* from -spread to +spread in equal steps (the first and the last mirror each
\* other about the facing direction, the first on the negative side); a Pulse
\* weapon returns one command at the player's position with zero velocity,
\* whatever its count and spread.
C36_FireEmitsFan ==
    (call.fn = "fire" /\ can_fire(call.weapon)) =>
        LET w == call.weapon
            n == w.stats.projectile_count
            spread == w.stats.spread_angle
            cs == call.result.commands
            f == call.player_facing
        IN  IF w.weapon_type = "Pulse"
            THEN cs = <<SpawnCommand("Pulse", call.player_pos, <<0, 0>>)>>
            ELSE /\ Len(cs) = n
                 /\ \A k \in DOMAIN cs :
                      /\ cs[k].projectile_type = w.weapon_type
                      /\ cs[k].pos = call.player_pos
                 /\ IF n = 1
                    THEN Cross(f, cs[1].vel) = 0 /\ Dot(f, cs[1].vel) > 0
                    ELSE /\ \A k \in DOMAIN cs :
                              cs[k].vel = NormScale(rotate_vector(f, AngleOffset(k - 1, n, spread)),
                                                    w.stats.projectile_stats.speed)
                         /\ AngleOffset(0, n, spread) = -spread
                         /\ AngleOffset(n - 1, n, spread) = spread
                         /\ Cross(f, cs[1].vel) <= 0
                         /\ Cross(f, cs[n].vel) = -Cross(f, cs[1].vel)
                         /\ Dot(f, cs[n].vel) = Dot(f, cs[1].vel)
                         /\ spread > 0 => Cross(f, cs[1].vel) < 0

\* a fan of four energy balls over +- 30 degrees
C36_Witness ==
    /\ call.fn = "fire"
    /\ call.weapon.weapon_type = "EnergyBall"
    /\ call.weapon.stats.projectile_count = 4
    /\ call.weapon.stats.spread_angle = 30
    /\ Len(call.result.commands) = 4
    /\ call.result.commands[1].vel # call.result.commands[4].vel
    /\ call.result.weapon.cooldown_remaining = call.weapon.stats.cooldown


----------------------------------------------------------------------------
(* One weapon that is levelled up again and again, its timer updated in     *)
(* between.                                                                 *)

\* highest level a weapon is taken to
MaxLevels == 8

CallWeaponLevelUp ==
    /\ call.fn = "Weapon"
    /\ call.weapon.level < MaxLevels
    /\ call' = [call EXCEPT !.op = "level_up", !.commands = <<>>,
                            !.weapon = level_up(call.weapon)]
    /\ GameUnchanged

NextLevelUp ==
    \/ CallWeaponNew
    \/ CallWeaponLevelUp
    \/ CallWeaponUpdate

SpecLevelUp == InitCall /\ [][NextLevelUp]_vars

\* the floor under the cooldown of a weapon that reaches that level
CooldownFloor(weapon_type, level) ==
    IF weapon_type = "Pulse" /\ level < 5 THEN 3 ELSE 1

----------------------------------------------------------------------------
(* The apply step *)

\* C38: an apply step that finds no request leaves the phase, the player,
\* the clock and the entities as they are; one that finds a request makes it
\* the phase and leaves no request behind, whatever was requested before it
\* in the frame: the player is reset only if that last request is GameOver,
\* the clock only if it is Playing.
C38_ApplyTakesLastRequest ==
    [][pc = "apply" =>
        /\ next_state' = "None"
        /\ next_state = "None" =>
            /\ state' = state
            /\ player' = player
            /\ t_elapsed' = t_elapsed
            /\ t_passed' = t_passed
            /\ enemies' = enemies
            /\ projectiles' = projectiles
        /\ next_state # "None" =>
            /\ state' = next_state
            /\ next_state # "GameOver" => player' = player
            /\ next_state # "Playing" => t_elapsed' = t_elapsed]_vars

\* after the apply step of a frame in which GameOver was requested for a hit
\* and WeaponSelection after it: the phase is WeaponSelection and the player
\* has not been reset
C38_Witness ==
    /\ pc = "frame"
    /\ frame0.state = "Playing"
    /\ player_hit # {}
    /\ state = "WeaponSelection"
    /\ next_state = "None"
    /\ player.level > 0
    /\ player.weapons # <<>>


----------------------------------------------------------------------------
(* XP and level *)

\* C39: the player's XP is at least xp_for_level(level) in every state; XP and
\* level are 0 in a constructed game (at the start and after a restart) and
\* after the apply step that enters GameOver; a step raises the level by at
\* most 1, and only with XP that has reached its threshold.
C39_LevelNeverAheadOfXp ==
    /\ player.xp = 0 /\ player.level = 0
    /\ [][/\ player.xp >= xp_for_level(player.level)
          /\ player'.xp >= xp_for_level(player'.level)
          /\ player'.level > player.level =>
                /\ player'.level = player.level + 1
                /\ player'.xp > player.xp
          /\ (player'.level < player.level \/ player'.xp < player.xp) =>
                /\ player'.xp = 0 /\ player'.level = 0
                /\ \/ pc = "apply" /\ next_state = "GameOver"
                   \/ RestartStep
          /\ (pc = "apply" /\ next_state = "GameOver") =>
                player'.xp = 0 /\ player'.level = 0
          /\ RestartStep => player'.xp = 0 /\ player'.level = 0]_vars

\* a player whose XP has reached the first threshold and who has been given
\* the level for it, now choosing a weapon
C39_Witness ==
    /\ player.level = 1
    /\ player.xp >= xp_for_level(1)
    /\ player.xp < xp_for_level(2)
    /\ state = "WeaponSelection"
    /\ wave > 0


----------------------------------------------------------------------------
(* Entity ids *)

\* ids of the live enemies and projectiles
LiveIds(es, ps) == {es[i].id : i \in DOMAIN es} \cup ProjectileIds(ps)

\* C40: within one game the live enemies and projectiles have pairwise
\* different ids, all below next_entity_id, and so are the marked ids; the
\* entities a step spawns are appended with the ids next_entity_id,
\* next_entity_id + 1, ... and the counter grows by their number; the counter
\* never falls; no entity spawned by a step has an id that is marked or was
\* handed out before in the game.  (The restart constructs a new game.)
C40_IdsDistinctAndFresh ==
    [][/\ Cardinality(LiveIds(enemies, projectiles)) = Len(enemies) + Len(projectiles)
       /\ \A id \in LiveIds(enemies, projectiles) \cup enemies_to_despawn
                        \cup projectiles_to_despawn : id < next_entity_id
       /\ ~RestartStep =>
            LET spawned == LiveIds(enemies', projectiles') \ LiveIds(enemies, projectiles)
                ne == Len(enemies') - Len(enemies)
                np == Len(projectiles') - Len(projectiles)
            IN  /\ next_entity_id' >= next_entity_id
                /\ spawned = next_entity_id .. (next_entity_id' - 1)
                /\ spawned \cap (enemies_to_despawn \cup projectiles_to_despawn) = {}
                /\ spawned \cap session_ids = {}
                /\ spawned # {} =>
                     /\ ne >= 0 /\ np >= 0
                     /\ ne + np = next_entity_id' - next_entity_id
                     /\ \A k \in 1..ne :
                          enemies'[Len(enemies) + k].id = next_entity_id + k - 1
                     /\ \A k \in 1..np :
                          projectiles'[Len(projectiles) + k].id = next_entity_id + ne + k - 1
       /\ RestartStep => next_entity_id' = 0 /\ enemies' = <<>> /\ projectiles' = <<>>]_vars

\* the enemies of a second wave, just spawned, next to a projectile fired at
\* the first wave, whose enemies are gone: old and new ids side by side
C40_Witness ==
    /\ pc = "time"
    /\ wave = 2
    /\ enemies # <<>>
    /\ projectiles # <<>>
    /\ enemies[Len(enemies)].id = next_entity_id - 1
    /\ projectiles[1].id < enemies[1].id
    /\ next_entity_id > Len(enemies) + Len(projectiles)

====
